---- MODULE Spec2Model ----
(***************************************************************************)
(* State-machine model of the hierarchical recursive decomposition engine  *)
(* (ChatLLMAgent.response_from_LLM_with_hierarchical_recursive_decomposi-  *)
(* tion), of the record store MessagesWithMetaData, of the TaskCounter, of *)
(* the context trimmer __trim_context and of the action parser.            *)
(*                                                                         *)
(* The specifications of the module:                                       *)
(*   Spec       the engine: one top-level hierarchical solve               *)
(*   SpecTrim   __trim_context run on a bounded message list               *)
(*   SpecParse  parsing_action_function applied to a bounded reply text    *)
(*   SpecCall   the constructor and the retry-decorated provider calls      *)
(*   SpecStore  the record store driven through its own operations          *)
(*   SpecContext MessageContext: the three modes and update_task_prompt     *)
(*   SpecClone  MessageContext: clone, appends and edits in place           *)
(*   SpecLoad   load_prompts over directories with files missing            *)
(*   SpecAgent  the record store driven likewise, then cloned with its agent *)
(*   SpecLive   the same engine, every enabled step eventually taken       *)
(*   SpecDeep   the scratch copy of the context of the reasoning methods    *)
(* The engine runs modelled are those in which every provider call returns *)
(* text and the context stays under the token ceiling, so that the trimmer *)
(* returns the list it was given.                                          *)
(***************************************************************************)
EXTENDS Integers, Sequences, FiniteSets, TLC

\* ------------------------------------------------------------------ bounds
\* largest max_llm_calling_count a run is started with
MaxBudget == 6
\* largest number of subtasks a decomposition reply lists
MaxSub == 2

VARIABLES
    pc,                         \* position of the engine's single thread
    inflight,                   \* phase of the provider call in flight, or "none"
    messages,                   \* self.context.messages (bound to the store)
    metadata_messages,          \* MessagesWithMetaData.metadata_messages
    task_counter,               \* MessagesWithMetaData.task_counter.numbers_array
    current_llm_calling_count,  \* the closure's shared counter
    max_llm_calling_count,      \* self.max_llm_calling_count
    current_depth,              \* argument of the pending solve_task call
    skip_solution_generation,   \* argument of the pending solve_task call
    stack,                      \* the active decompose loops (subtasks, index)
    exc,                        \* the exception being propagated, or "none"
    prompts,                    \* what load_prompts found
    task_prompt,                \* the context's standing instruction
    result,                     \* what the top-level call produced
    error_message               \* the caught budget error's text, or "none"

engine_vars == <<pc, inflight, messages, metadata_messages, task_counter,
                 current_llm_calling_count, max_llm_calling_count, current_depth,
                 skip_solution_generation, stack, exc, prompts, task_prompt, result,
                 error_message>>

Max(a, b) == IF a >= b THEN a ELSE b

\* ------------------------------------------------------------- TaskCounter
\* a sibling step that would leave the path as it is
same_digit(tc) == tc

increase_digit(tc) == [tc EXCEPT ![Len(tc)] = @ + 1]

increase_order(tc) == Append(tc, 1)

\* an ascent that would go all the way up
reduce_to_root(tc) == <<>>

reduce_order(tc) == SubSeq(tc, 1, Len(tc) - 1)

get_order(tc) == Len(tc)

\* a counter that would take every command on every path
never_raises(tc, command_number) == FALSE

\* increase_digit and reduce_order raise on the root path
counter_raises(tc, command_number) == command_number \in {1, 3} /\ tc = <<>>

\* ---------------------------------------------------------- MessageContext
\* length class of a text; the compaction heuristic compares it with 300
TextLen(body) ==
    CASE body = "full"    -> IF prompts = "missing" THEN 0 ELSE 400
      [] body = "short"   -> IF prompts = "missing" THEN 0
                             ELSE IF prompts = "fallback" THEN 400 ELSE 100
      [] body = "lengthy" -> 400
      [] body = "brief"   -> 100
      [] body = ""        -> 0
      [] OTHER            -> 100

\* content is the list [text item] the context builds; ann, body and ind
\* describe the text: its annotation lines, what follows them, its indent
NewMessage(role, kind, body) ==
    [role |-> role, kind |-> kind, content |-> "list", ann |-> <<>>, body |-> body,
     ind |-> 0, task |-> <<>>]

\* mode 2: the standing instruction is seeded only into an empty log
add_message_mode_2(msgs, role, kind, body) ==
    LET seeded == IF task_prompt /= "" /\ Len(msgs) = 0
                  THEN <<NewMessage("system", "task_prompt", "brief")>>
                  ELSE <<>>
    IN  (msgs \o seeded) \o <<NewMessage(role, kind, body)>>

add_user_message(msgs, kind) == add_message_mode_2(msgs, "user", kind, "full")

add_assistant_message(msgs, kind, body) == add_message_mode_2(msgs, "assistant", kind, body)

\* ---------------------------------------------------- MessagesWithMetaData
\* a recomputation that would know the current task only
current_or_resolved(arr, current_task_array) ==
    IF arr = current_task_array THEN "in_progress" ELSE "resolved"

is_ancestor(anc, desc) ==
    /\ Len(anc) <= Len(desc)
    /\ \A i \in 1..Len(anc) : anc[i] = desc[i]

new_status(arr, current_task_array) ==
    IF arr = current_task_array THEN "in_progress"
    ELSE IF is_ancestor(arr, current_task_array) THEN "parent_for_current_task"
    ELSE IF is_ancestor(current_task_array, arr) THEN "subtask_resolved"
    ELSE IF arr /= <<>> /\ current_task_array /= <<>> /\ arr[1] = current_task_array[1]
         THEN "resolved"
    ELSE "resolved_subtask_of_parent_not_important_for_current"

update_all_messages_statuses(recs) ==
    IF recs = <<>> THEN recs
    ELSE [i \in DOMAIN recs |->
            [recs[i] EXCEPT !.status = new_status(recs[i].task_number,
                                                  recs[Len(recs)].task_number)]]

\* a rewrite that would not compare the status of the text with the record's
rewrite_always(msgs, r) ==
    [msgs EXCEPT ![r.message] =
        [@ EXCEPT !.ann = [k \in DOMAIN @ |-> [@[k] EXCEPT !.status = r.status]],
                  !.ind = @ + get_order(r.task_number)]]

\* one record's rewrite: every status="..." of the text is replaced when the
\* first one differs from the record's status, and the text is indented again
rewrite_one(msgs, r) ==
    LET m == msgs[r.message] IN
    IF Len(m.ann) > 0 /\ m.ann[1].status /= r.status
    THEN [msgs EXCEPT ![r.message] =
            [m EXCEPT !.ann = [k \in DOMAIN m.ann |-> [m.ann[k] EXCEPT !.status = r.status]],
                      !.ind = @ + get_order(r.task_number)]]
    ELSE msgs

RECURSIVE rewrite_from(_, _, _)
rewrite_from(msgs, recs, i) ==
    IF i > Len(recs) THEN msgs
    ELSE rewrite_from(rewrite_one(msgs, recs[i]), recs, i + 1)

rewrite_messages_content_with_updated_statuses(msgs, recs) == rewrite_from(msgs, recs, 1)

\* add_metadata_in_last_message: the record appended for the last message
stamp_record(msgs, tc, status, message_type) ==
    [task_number |-> tc, status |-> status, type |-> message_type,
     message |-> Len(msgs), shortened |-> FALSE]

\* add_metadata_in_last_message: the last message's text, dedented, with the
\* annotation line put first and the whole indented by the path's depth
stamp_message(msgs, tc, status, message_type) ==
    [msgs EXCEPT ![Len(msgs)] =
        [@ EXCEPT !.ann = <<[status |-> status, type |-> message_type, path |-> tc]>> \o @,
                  !.ind = get_order(tc)]]

\* a check that would go by the length of the text alone
shortened_by_length(msgs, r) ==
    Len(msgs[r.message].ann) > 1 \/ TextLen(msgs[r.message].body) < 300

\* the lines after the first one, as _is_prompt_already_shortened measures them
RestLen(m) == (IF Len(m.ann) > 1 THEN 60 * (Len(m.ann) - 1) ELSE 0) + TextLen(m.body)

HasRestLines(m) == Len(m.ann) > 1 \/ (Len(m.ann) = 1 /\ TextLen(m.body) > 0)

_is_prompt_already_shortened(msgs, r) ==
    \/ r.shortened
    \/ HasRestLines(msgs[r.message]) /\ RestLen(msgs[r.message]) < 300

\* a replacement that would leave the old text where it is
keep_old_lines(m, r, shortened_prompt) ==
    [m EXCEPT !.ind = @ + get_order(r.task_number)]

\* lines[0] + newline + shortened_prompt, indented by the record's depth
replaced_text(m, r, shortened_prompt) ==
    [m EXCEPT !.ann = IF Len(@) > 0 THEN <<@[1]>> ELSE @,
              !.body = shortened_prompt,
              !.ind = @ + get_order(r.task_number)]

\* replace_prompt_in_message: the first text item of a list, or the string
replace_prompt_in_message(msgs, r, shortened_prompt) ==
    IF msgs[r.message].content = "list"
    THEN [msgs EXCEPT ![r.message] = replaced_text(@, r, shortened_prompt)]
    ELSE IF msgs[r.message].content = "str"
    THEN [msgs EXCEPT ![r.message] = replaced_text(@, r, shortened_prompt)]
    ELSE msgs

RECURSIVE replace_prompts_by_type(_, _, _, _)
\* strategy "all": S is <<msgs, recs>>, i the next record to look at
replace_prompts_by_type(S, message_type, shortened_prompt, i) ==
    IF i > Len(S[2]) THEN S
    ELSE LET r == S[2][i] IN
         IF r.type = message_type /\ ~_is_prompt_already_shortened(S[1], r)
         THEN replace_prompts_by_type(
                  <<replace_prompt_in_message(S[1], r, shortened_prompt),
                    [S[2] EXCEPT ![i].shortened = TRUE]>>,
                  message_type, shortened_prompt, i + 1)
         ELSE replace_prompts_by_type(S, message_type, shortened_prompt, i + 1)

\* an empty type or an empty replacement text replaces nothing
safe_replace_prompt(S, message_type, shortened_prompt) ==
    IF message_type = "" \/ TextLen(shortened_prompt) = 0 THEN S
    ELSE replace_prompts_by_type(S, message_type, shortened_prompt, 1)

\* replaced_count: a record is marked as shortened when its text was replaced
replaced_count(S, message_type, shortened_prompt) ==
    Cardinality({i \in DOMAIN S[2] :
        /\ ~S[2][i].shortened
        /\ safe_replace_prompt(S, message_type, shortened_prompt)[2][i].shortened})

\* a result that would tell whether records of the type exist
found_records(S, message_type, shortened_prompt) ==
    \E i \in DOMAIN S[2] : S[2][i].type = message_type

\* what safe_replace_prompt returns
safe_replace_prompt_returns(S, message_type, shortened_prompt) ==
    replaced_count(S, message_type, shortened_prompt) > 0


\* ------------------------------------------------------- subtask parser
\* a decomposition reply: a fenced JSON block (absent, undecodable, or an
\* object whose "subtasks" lists items with a title and a goal, "" when the
\* field is missing) and lines that are numbered list items or plain text.
\* A subtask text is the tuple of its parts.
SubtaskItem(title, goal) == [title |-> title, goal |-> goal]

Line(numbered, text) == [numbered |-> numbered, text |-> text]

task_str(task) ==
    IF task.title /= "" /\ task.goal /= "" THEN <<task.title, task.goal>>
    ELSE IF task.title /= "" THEN <<task.title>>
    ELSE IF task.goal /= "" THEN <<task.goal>>
    ELSE <<>>

NonEmpty(text) == text /= <<>>

json_subtasks(reply) ==
    IF reply.fence = "object"
    THEN SelectSeq([i \in DOMAIN reply.subtasks |-> task_str(reply.subtasks[i])], NonEmpty)
    ELSE <<>>

IsNumbered(line) == line.numbered

numbered_tasks(reply) ==
    [i \in DOMAIN SelectSeq(reply.lines, IsNumbered) |->
        <<SelectSeq(reply.lines, IsNumbered)[i].text>>]

parsing_decompose_task_function(reply) ==
    IF json_subtasks(reply) /= <<>> THEN json_subtasks(reply)
    ELSE numbered_tasks(reply)

\* a decompose branch that would loop over the parsed list as it is
parsed_subtasks(reply) == parsing_decompose_task_function(reply)

\* the three standard subtasks substituted for an empty parse
default_subtasks == <<<<"analysis">>, <<"strategy">>, <<"implementation">>>>

subtasks_of(reply) ==
    IF parsing_decompose_task_function(reply) = <<>> THEN default_subtasks
    ELSE parsing_decompose_task_function(reply)

ItemText(i) == CASE i = 1 -> "first" [] i = 2 -> "second" [] i = 3 -> "third"
                 [] OTHER -> "further"

NumberedReply(n) ==
    [fence |-> "none", subtasks |-> <<>>,
     lines |-> [i \in 1..n |-> Line(TRUE, ItemText(i))]]

SubtaskReplies ==
    {NumberedReply(n) : n \in 1..MaxSub}
    \cup {[fence |-> "none", subtasks |-> <<>>, lines |-> <<Line(FALSE, "plain")>>],
          [fence |-> "broken", subtasks |-> <<>>, lines |-> <<>>],
          [fence |-> "object",
           subtasks |-> <<SubtaskItem("title", "goal"), SubtaskItem("", "")>>,
           lines |-> <<Line(TRUE, "first"), Line(TRUE, "second")>>]}


\* ---------------------------------------------------------- action parser
\* A reply text is a sequence of characters.  Cyrillic letters are written
\* in transliteration: "~a" "~b" "~v" "~g" are the four action letters
\* (accept, repair, continue, decompose), "^a" .. "^g" their capitals.
VARIABLES
    answer,     \* the chunks of the reply text handed to the parser
    code        \* what parsing_action_function produced, or "none"

parse_vars == <<answer, code>>

CyrillicLower ==
    {"~a", "~b", "~c", "~ch", "~d", "~e", "~ee", "~f", "~g", "~h", "~hard", "~i",
     "~j", "~k", "~l", "~m", "~n", "~o", "~p", "~r", "~s", "~sch", "~sh", "~soft",
     "~t", "~u", "~v", "~y", "~ya", "~yu", "~z", "~zh"}

CyrillicUpper == {"^a", "^b", "^v", "^g", "^o"}

Lower(c) ==
    CASE c = "^a" -> "~a" [] c = "^b" -> "~b" [] c = "^v" -> "~v" [] c = "^g" -> "~g"
      [] c = "^o" -> "~o"
      [] c = "A" -> "a" [] c = "B" -> "b" [] c = "C" -> "c" [] c = "D" -> "d"
      [] OTHER -> c

IsCyrillic(c) == c \in CyrillicLower \cup CyrillicUpper

IsSpace(c) == c \in {" ", "\n"}

\* [abvg] of the source's patterns, under re.IGNORECASE
IsActionLetter(c) == Lower(c) \in {"~a", "~b", "~v", "~g"}

IsLatinLetter(c) == Lower(c) \in {"a", "b", "c", "d"}

Least(S) == CHOOSE p \in S : \A q \in S : p <= q

Greatest(S) == CHOOSE p \in S : \A q \in S : p >= q

\* the word w stands in t at position p (exactly, or ignoring case)
StartsAt(t, p, w) ==
    /\ p >= 1
    /\ p + Len(w) - 1 <= Len(t)
    /\ \A i \in 1..Len(w) : t[p + i - 1] = w[i]

StartsAtI(t, p, w) ==
    /\ p >= 1
    /\ p + Len(w) - 1 <= Len(t)
    /\ \A i \in 1..Len(w) : Lower(t[p + i - 1]) = w[i]

\* first position from p on that holds no white space (Len(t) + 1 if none)
SkipSpaces(t, p) ==
    Least({q \in p..(Len(t) + 1) : q = Len(t) + 1 \/ ~IsSpace(t[q])})

\* first position from p on that holds a Cyrillic letter (Len(t) + 1 if none)
SkipNonCyrillic(t, p) ==
    Least({q \in p..(Len(t) + 1) : q = Len(t) + 1 \/ IsCyrillic(t[q])})

Contains(t, w) == \E p \in 1..Len(t) : StartsAtI(t, p, w)

fence == <<"tick", "tick", "tick">>

quoted_action == <<"\"", "a", "c", "t", "i", "o", "n", "\"">>

\* the fenced pattern (fence, optional json, spaces, a lazy brace group, spaces,
\* fence; "tick" is the backquote) at p: the end of the captured group, or 0
fenced_json_end(t, p) ==
    IF ~StartsAt(t, p, fence) THEN 0
    ELSE LET a == IF StartsAt(t, p + 3, <<"j", "s", "o", "n">>) THEN p + 7 ELSE p + 3
             b == SkipSpaces(t, a)
             ends == {e \in (b + 1)..Len(t) :
                        t[e] = "}" /\ StartsAt(t, SkipSpaces(t, e + 1), fence)}
         IN  IF b <= Len(t) /\ t[b] = "{" /\ ends /= {} THEN Least(ends) ELSE 0

fenced_json_start(t, p) ==
    SkipSpaces(t, IF StartsAt(t, p + 3, <<"j", "s", "o", "n">>) THEN p + 7 ELSE p + 3)

\* the unfenced pattern (a brace group holding the quoted word action and no
\* opening brace before it) at p: the end of the captured group, or 0
bare_json_end(t, p) ==
    IF p > Len(t) \/ t[p] /= "{" THEN 0
    ELSE LET keys == {a \in (p + 1)..Len(t) :
                        /\ StartsAt(t, a, quoted_action)
                        /\ \A i \in (p + 1)..(a - 1) : t[i] /= "{"
                        /\ \E e \in (a + 8)..Len(t) : t[e] = "}"}
         IN  IF keys = {} THEN 0
             ELSE Least({e \in (Greatest(keys) + 8)..Len(t) : t[e] = "}"})

\* the text json.loads is given, or <<>> when neither pattern matches
json_str(t) ==
    LET fenced == {p \in 1..Len(t) : fenced_json_end(t, p) /= 0}
        bare == {p \in 1..Len(t) : bare_json_end(t, p) /= 0}
    IN  IF fenced /= {}
        THEN SubSeq(t, fenced_json_start(t, Least(fenced)), fenced_json_end(t, Least(fenced)))
        ELSE IF bare /= {}
        THEN SubSeq(t, Least(bare), bare_json_end(t, Least(bare)))
        ELSE <<>>

\* json.loads on the objects the replies are built from: the value of
\* "action" (a text, "nonstring", or "absent"), or "JSONDecodeError"
json_loads(str) ==
    CASE str = <<"{", "\"", "a", "c", "t", "i", "o", "n", "\"", ":", "\"", "~a", "\"", "}">>
            -> <<"~a">>
      [] str = <<"{", "\"", "a", "c", "t", "i", "o", "n", "\"", ":", "\"", "B", "\"", "}">>
            -> <<"B">>
      [] str = <<"{", "\"", "a", "c", "t", "i", "o", "n", "\"", ":", "\"", "d", "\"", "}">>
            -> <<"d">>
      [] str = <<"{", "\"", "a", "c", "t", "i", "o", "n", "\"", ":", "\"", "x", "\"", "}">>
            -> <<"x">>
      [] str = <<"{", "\"", "a", "c", "t", "i", "o", "n", "\"", ":", "1", "}">>
            -> <<"nonstring">>
      [] str = <<"{", "\"", "k", "\"", ":", "\"", "~g", "\"", "}">>
            -> <<"absent">>
      [] OTHER -> <<"JSONDecodeError">>

\* way 1 of the parser: a letter, "AttributeError", or "none" to go on
json_action(t) ==
    IF json_str(t) = <<>> THEN "none"
    ELSE LET data == json_loads(json_str(t)) IN
         IF data \in {<<"JSONDecodeError">>, <<"absent">>} THEN "none"
         ELSE IF data = <<"nonstring">> THEN "AttributeError"
         ELSE LET action == [i \in DOMAIN data |-> Lower(data[i])] IN
              IF action \in {<<"a">>, <<"~a">>} THEN "~a"
              ELSE IF action \in {<<"b">>, <<"~b">>} THEN "~b"
              ELSE IF action \in {<<"c">>, <<"~v">>} THEN "~v"
              ELSE IF action \in {<<"d">>, <<"~g">>} THEN "~g"
              ELSE "none"


\* way 2: the five action_patterns, in the order of the list
context_words ==
    <<<<"~d", "~e", "~j", "~s", "~t", "~v", "~i", "~e">>,
      <<"a", "c", "t", "i", "o", "n">>,
      <<"~v", "~a", "~r", "~i", "~a", "~n", "~t">>,
      <<"~v", "~y", "~b", "~o", "~r">>,
      <<"~r", "~e", "~sh", "~e", "~n", "~i", "~e">>>>

\* each pattern_k(t, p) is the position of the letter the pattern captures
\* when it matches at p, and 0 when it does not match there
pattern_1(t, p) ==
    LET hits == {i \in 1..Len(context_words) :
                    /\ StartsAtI(t, p, context_words[i])
                    /\ LET h == SkipNonCyrillic(t, p + Len(context_words[i]))
                       IN  h + 1 <= Len(t) /\ IsActionLetter(t[h]) /\ t[h + 1] = ")"}
    IN  IF hits = {} THEN 0
        ELSE SkipNonCyrillic(t, p + Len(context_words[Least(hits)]))

pattern_2(t, p) ==
    LET q == SkipSpaces(t, p + 1)
    IN  IF IsActionLetter(t[p]) /\ q <= Len(t) /\ t[q] = ")" THEN p ELSE 0

pattern_3(t, p) ==
    LET q == SkipSpaces(t, p + 8)
        r == SkipSpaces(t, q + 1)
    IN  IF /\ StartsAtI(t, p, quoted_action)
           /\ q <= Len(t) /\ t[q] = ":"
           /\ r + 2 <= Len(t) /\ t[r] = "\"" /\ IsActionLetter(t[r + 1]) /\ t[r + 2] = "\""
        THEN r + 1 ELSE 0

pattern_4(t, p) ==
    LET q == SkipSpaces(t, p + 8)
    IN  IF StartsAtI(t, p, context_words[1]) /\ q <= Len(t) /\ IsActionLetter(t[q])
        THEN q ELSE 0

pattern_5(t, p) ==
    LET q == SkipSpaces(t, p + 7)
    IN  IF /\ StartsAtI(t, p, <<"~v", "~y", "~b", "~i", "~r", "~a", "~yu">>)
           /\ q <= Len(t) /\ IsActionLetter(t[q])
        THEN q ELSE 0

pattern(k, t, p) ==
    CASE k = 1 -> pattern_1(t, p)
      [] k = 2 -> pattern_2(t, p)
      [] k = 3 -> pattern_3(t, p)
      [] k = 4 -> pattern_4(t, p)
      [] k = 5 -> pattern_5(t, p)

\* number of capture groups of pattern k
groups(k) == IF k = 1 THEN 2 ELSE 1

\* the group the loop reads the letter from
letter_group(k) == IF k = 2 THEN 1 ELSE 2

\* re.search: the leftmost match of pattern k, as the letter's position, or 0
search(k, t) ==
    LET at == {p \in 1..Len(t) : pattern(k, t, p) /= 0}
    IN  IF at = {} THEN 0 ELSE pattern(k, t, Least(at))

pattern_action(t) ==
    LET matching == {k \in 1..5 : search(k, t) /= 0} IN
    IF matching = {} THEN "none"
    ELSE LET k == Least(matching) IN
         IF letter_group(k) > groups(k) THEN "IndexError"
         ELSE Lower(t[search(k, t)])

\* way 3: a bare Cyrillic letter, then a Latin letter through the table
conversion(c) ==
    CASE c = "a" -> "~a" [] c = "b" -> "~b" [] c = "c" -> "~v" [] c = "d" -> "~g"

letter_action(t) ==
    LET cyr == {p \in 1..Len(t) : IsActionLetter(t[p])}
        lat == {p \in 1..Len(t) : IsLatinLetter(t[p])}
    IN  IF cyr /= {} THEN Lower(t[Least(cyr)])
        ELSE IF lat /= {} THEN conversion(Lower(t[Least(lat)]))
        ELSE "none"

\* way 4: the keywords dictionary, in insertion order
keywords == <<
    [word |-> <<"~u", "~d", "~o", "~v", "~l", "~e", "~t", "~v", "~o", "~r", "~ya", "~e", "~t">>, action |-> "~a"],
    [word |-> <<"~z", "~a", "~v", "~e", "~r", "~sh", "~e", "~n", "~o">>, action |-> "~a"],
    [word |-> <<"~g", "~o", "~t", "~o", "~v", "~o">>, action |-> "~a"],
    [word |-> <<"~u", "~s", "~p", "~e", "~sh", "~n", "~o">>, action |-> "~a"],
    [word |-> <<"~s", "~o", "~o", "~t", "~v", "~e", "~t", "~s", "~t", "~v", "~u", "~e", "~t">>, action |-> "~a"],
    [word |-> <<"~i", "~s", "~p", "~r", "~a", "~v", "~i", "~t", "~soft">>, action |-> "~b"],
    [word |-> <<"~l", "~e", "~g", "~k">>, action |-> "~b"],
    [word |-> <<"~p", "~e", "~r", "~e", "~s", "~o", "~b", "~r", "~a", "~t", "~soft">>, action |-> "~b"],
    [word |-> <<"~n", "~e", "~z", "~n", "~a", "~ch", "~i", "~t", "~e", "~l", "~soft", "~n">>, action |-> "~b"],
    [word |-> <<"~p", "~r", "~o", "~d", "~o", "~l", "~zh", "~i", "~t", "~soft">>, action |-> "~v"],
    [word |-> <<"~n", "~e", "~p", "~o", "~l", "~n">>, action |-> "~v"],
    [word |-> <<"~d", "~o", "~p", "~o", "~l", "~n", "~i", "~t", "~soft">>, action |-> "~v"],
    [word |-> <<"~d", "~o", "~r", "~a", "~b", "~o", "~t", "~a", "~t", "~soft">>, action |-> "~v"],
    [word |-> <<"~s", "~e", "~r", "~soft", "~e", "~z", "~n">>, action |-> "~g"],
    [word |-> <<"~s", "~l", "~o", "~zh", "~n">>, action |-> "~g"],
    [word |-> <<"~d", "~e", "~k", "~o", "~m", "~p", "~o", "~z", "~i", "~c">>, action |-> "~g"],
    [word |-> <<"~r", "~a", "~z", "~b", "~i", "~t", "~soft">>, action |-> "~g"],
    [word |-> <<"~p", "~o", "~d", "~z", "~a", "~d", "~a", "~ch">>, action |-> "~g"]
>>

keyword_action(t) ==
    LET found == {k \in 1..Len(keywords) : Contains(t, keywords[k].word)}
    IN  IF found = {} THEN "none" ELSE keywords[Least(found)].action

\* the value parsing_action_function returns on the way out when nothing matched
default_action == "~g"

parsing_action_function(t) ==
    IF json_action(t) /= "none" THEN json_action(t)
    ELSE IF pattern_action(t) /= "none" THEN pattern_action(t)
    ELSE IF letter_action(t) /= "none" THEN letter_action(t)
    ELSE IF keyword_action(t) /= "none" THEN keyword_action(t)
    ELSE default_action

\* the pieces reply texts are built from, and their characters
Chunk(name) ==
    CASE name = "deistvie"    -> context_words[1]
      [] name = "vybirayu"    -> <<"~v", "~y", "~b", "~i", "~r", "~a", "~yu">>
      [] name = "action"      -> context_words[2]
      [] name = "cyr_a"       -> <<"~a">>
      [] name = "cyr_b"       -> <<"~b">>
      [] name = "cyr_G"       -> <<"^g">>
      [] name = "cyr_v)"      -> <<"~v", ")">>
      [] name = ")"           -> <<")">>
      [] name = "lat_b"       -> <<"b">>
      [] name = "lat_D"       -> <<"D">>
      [] name = "uspeshno"    -> keywords[4].word
      [] name = "prodolzhit"  -> keywords[10].word
      [] name = "slozhn"      -> keywords[15].word
      [] name = "ok"          -> <<"o", "k">>
      [] name = "json_a"      -> <<"{", "\"", "a", "c", "t", "i", "o", "n", "\"", ":", "\"", "~a", "\"", "}">>
      [] name = "json_B"      -> <<"{", "\"", "a", "c", "t", "i", "o", "n", "\"", ":", "\"", "B", "\"", "}">>
      [] name = "json_x"      -> <<"{", "\"", "a", "c", "t", "i", "o", "n", "\"", ":", "\"", "x", "\"", "}">>
      [] name = "json_1"      -> <<"{", "\"", "a", "c", "t", "i", "o", "n", "\"", ":", "1", "}">>
      [] name = "json_broken" -> <<"{", "\"", "a", "c", "t", "i", "o", "n", "\"", ":", "\"", "~v", "\"", ",", "}">>
      [] name = "json_k"      -> <<"{", "\"", "k", "\"", ":", "\"", "~g", "\"", "}">>
      [] name = "fenced_d"    -> <<"tick", "tick", "tick", "j", "s", "o", "n",
                                   "{", "\"", "a", "c", "t", "i", "o", "n", "\"", ":", "\"", "d", "\"", "}",
                                   "tick", "tick", "tick">>
      [] name = "pair_g"      -> <<"\"", "a", "c", "t", "i", "o", "n", "\"", ":", "\"", "~g", "\"">>

Chunks ==
    {"deistvie", "vybirayu", "action", "cyr_a", "cyr_b", "cyr_G", "cyr_v)", ")",
     "lat_b", "lat_D", "uspeshno", "prodolzhit", "slozhn", "ok", "json_a", "json_B",
     "json_x", "json_1", "json_broken", "json_k", "fenced_d", "pair_g"}

\* the text of a reply: its chunks separated by single spaces
RECURSIVE Text(_)
Text(chunks) ==
    IF chunks = <<>> THEN <<>>
    ELSE IF Len(chunks) = 1 THEN Chunk(chunks[1])
    ELSE Chunk(chunks[1]) \o <<" ">> \o Text(Tail(chunks))


\* ----------------------------------------------------------------- engine
\* the replies a decision call is answered with: accept through the JSON
\* field, repair through a letter and a bracket, continue through a keyword,
\* decompose by default, and a text the fourth pattern matches
ActionReplies ==
    {<<"json_a">>, <<"cyr_b", ")">>, <<"prodolzhit">>, <<"ok">>, <<"deistvie", "cyr_a">>}

\* the replies a decomposition call is answered with
DecomposeReplies ==
    {NumberedReply(n) : n \in 1..MaxSub}
    \cup {[fence |-> "none", subtasks |-> <<>>, lines |-> <<Line(FALSE, "plain")>>]}

\* length class of the model's reply in a phase, by the run's reply profile
reply_body(profile, phase) ==
    CASE profile = "brief"   -> "brief"
      [] profile = "lengthy" -> "lengthy"
      [] profile = "mixed"   -> IF phase \in {"Theory", "Solution", "Task Decomposition"}
                                THEN "lengthy" ELSE "brief"

VARIABLES
    replies     \* the reply profile of the run

\* update_all_messages_statuses(); rewrite_messages_content_with_updated_statuses()
Refreshed(S) ==
    <<rewrite_messages_content_with_updated_statuses(S[1], update_all_messages_statuses(S[2])),
      update_all_messages_statuses(S[2])>>

\* a record that would refer to the counter of the store
same_counter(numbers_array, current) == current

\* the path a record holds when the counter of the store is current: the
\* record was given copy.deepcopy(task_counter), a counter of its own
__deepcopy__(numbers_array, current) == numbers_array

\* add_metadata_in_last_message(command_number=0, message_type=..., status="")
\* with the counter tc the command left
Stamped(S, tc, message_type) ==
    <<stamp_message(S[1], tc, "", message_type),
      Append([i \in DOMAIN S[2] |->
                 [S[2][i] EXCEPT !.task_number = __deepcopy__(@, tc)]],
             stamp_record(S[1], tc, "", message_type))>>

Asked(S, kind) == <<add_user_message(S[1], kind), S[2]>>

Answered(S, kind, body) == <<add_assistant_message(S[1], kind, body), S[2]>>

\* the task statement carries the text of the task
AskedTask(S, text) ==
    <<[add_user_message(S[1], "Task Statement")
          EXCEPT ![Len(add_user_message(S[1], "Task Statement"))].task = text], S[2]>>

Store == <<messages, metadata_messages>>

\* the innermost active decompose loop
Top == stack[Len(stack)]

Pop(frames) == SubSeq(frames, 1, Len(frames) - 1)

\* the argument of the pending recursion() call
task_text == IF stack = <<>> THEN <<"user_message">> ELSE Top.subtasks[Top.i]

\* whether the statuses are recomputed before the prompt of a phase is sent
refresh_before(phase) == phase /= "Recovery"

\* response_from_LLM up to the request: the prompt is appended and sent
CallLLM(phase) ==
    /\ pc = phase
    /\ inflight = "none"
    /\ LET S == Asked(IF refresh_before(phase) THEN Refreshed(Store) ELSE Store, phase)
       IN  /\ messages' = S[1]
           /\ metadata_messages' = S[2]
    /\ inflight' = phase

\* response_from_LLM from the response on, then the stamp and the compaction
\* of the phase: S is the store after them
AfterReply(phase, body, stamp, compact) ==
    LET answered == Answered(Store, phase, body)
        stamped == IF stamp THEN Stamped(answered, task_counter, phase) ELSE answered
    IN  IF compact THEN safe_replace_prompt(stamped, phase, "short") ELSE stamped

ReplyLLM(phase, next) ==
    /\ inflight = phase
    /\ LET S == AfterReply(phase, reply_body(replies, phase), TRUE, TRUE)
       IN  /\ messages' = S[1]
           /\ metadata_messages' = S[2]
    /\ inflight' = "none"
    /\ pc' = next

frame_vars == <<task_counter, current_llm_calling_count, max_llm_calling_count,
                current_depth, skip_solution_generation, stack, exc, prompts,
                task_prompt, result, error_message, replies>>

\* the top-level call up to the first recursion(): a fresh store over a clone
\* of the context, the root instruction appended and stamped
Start ==
    /\ pc = "start"
    /\ \E m \in 0..MaxBudget : max_llm_calling_count' = m
    /\ current_llm_calling_count' = 0
    /\ task_counter' = <<>>
    /\ LET S == Stamped(Asked(Refreshed(<<messages, <<>>>>), "Instruction"), <<>>, "Instruction")
       IN  /\ messages' = S[1]
           /\ metadata_messages' = S[2]
    /\ pc' = "recursion"
    /\ UNCHANGED <<inflight, current_depth, skip_solution_generation, stack, exc,
                   prompts, task_prompt, result, error_message, replies>>

\* recursion(): the task statement appended and stamped
TaskStatement ==
    /\ pc = "recursion"
    /\ LET S == Stamped(AskedTask(Refreshed(Store), task_text), task_counter, "Task Statement")
       IN  /\ messages' = S[1]
           /\ metadata_messages' = S[2]
    /\ pc' = "Theory"
    /\ UNCHANGED <<inflight>> /\ UNCHANGED frame_vars

Theory == CallLLM("Theory") /\ UNCHANGED pc /\ UNCHANGED frame_vars

TheoryReply == ReplyLLM("Theory", "Quality Criteria") /\ UNCHANGED frame_vars

QualityCriteria == CallLLM("Quality Criteria") /\ UNCHANGED pc /\ UNCHANGED frame_vars

\* recursion() goes on to solve_task(current_llm_calling_count + 2)
QualityCriteriaReply ==
    /\ ReplyLLM("Quality Criteria", "solve_task")
    /\ current_depth' = current_llm_calling_count + 2
    /\ skip_solution_generation' = FALSE
    /\ UNCHANGED <<task_counter, current_llm_calling_count, max_llm_calling_count,
                   stack, exc, prompts, task_prompt, result, error_message, replies>>

\* the head of solve_task: the shared counter and the limit
solve_task ==
    /\ pc = "solve_task"
    /\ current_llm_calling_count' = Max(current_llm_calling_count, current_depth)
    /\ IF current_llm_calling_count' > max_llm_calling_count
       THEN pc' = "raise" /\ exc' = "RecursionError"
       ELSE /\ pc' = IF skip_solution_generation THEN "Solution Verification" ELSE "Solution"
            /\ exc' = exc
    /\ UNCHANGED <<inflight, messages, metadata_messages, task_counter,
                   max_llm_calling_count, current_depth, skip_solution_generation,
                   stack, prompts, task_prompt, result, error_message, replies>>

Solution == CallLLM("Solution") /\ UNCHANGED pc /\ UNCHANGED frame_vars

SolutionReply == ReplyLLM("Solution", "Solution Verification") /\ UNCHANGED frame_vars

SolutionVerification == CallLLM("Solution Verification") /\ UNCHANGED pc /\ UNCHANGED frame_vars

SolutionVerificationReply ==
    ReplyLLM("Solution Verification", "Strategy Selection") /\ UNCHANGED frame_vars

StrategySelection == CallLLM("Strategy Selection") /\ UNCHANGED pc /\ UNCHANGED frame_vars

\* a solve_task that would take an accepted solution for an incomplete one
accept_as_continue(action_code) ==
    CASE action_code = "~a" -> "Solution Continuation"
      [] action_code = "~b" -> "Solution Retry"
      [] action_code = "~v" -> "Solution Continuation"
      [] action_code = "~g" -> "Task Decomposition"
      [] OTHER -> "raise"

\* where solve_task goes after the decision was parsed
branch(action_code) ==
    CASE action_code = "~a" -> "Solution Accepted"
      [] action_code = "~b" -> "Solution Retry"
      [] action_code = "~v" -> "Solution Continuation"
      [] action_code = "~g" -> "Task Decomposition"
      [] OTHER -> "raise"

StrategySelectionReply ==
    /\ inflight = "Strategy Selection"
    /\ \E action_txt \in ActionReplies :
         /\ LET S == AfterReply("Strategy Selection", "brief", TRUE, TRUE)
            IN  /\ messages' = [S[1] EXCEPT ![Len(S[1])].task = action_txt]
                /\ metadata_messages' = S[2]
         /\ pc' = branch(parsing_action_function(Text(action_txt)))
         /\ exc' = IF branch(parsing_action_function(Text(action_txt))) = "raise"
                   THEN parsing_action_function(Text(action_txt)) ELSE exc
    /\ inflight' = "none"
    /\ UNCHANGED <<task_counter, current_llm_calling_count, max_llm_calling_count,
                   current_depth, skip_solution_generation, stack, prompts,
                   task_prompt, result, error_message, replies>>


\* (a) the decision's reply is stamped a second time and solve_task returns
SolutionAccepted ==
    /\ pc = "Solution Accepted"
    /\ LET S == Stamped(Store, task_counter, "Accepted Solution")
       IN  /\ messages' = S[1]
           /\ metadata_messages' = S[2]
    /\ pc' = "return"
    /\ UNCHANGED inflight /\ UNCHANGED frame_vars

\* (b), (c): an instruction is appended, stamped and compacted, and
\* solve_task(current_llm_calling_count + 3) follows
Instructed(kind) ==
    /\ pc = kind
    /\ LET S == safe_replace_prompt(
                    Stamped(Asked(Refreshed(Store), kind), task_counter, kind), kind, "short")
       IN  /\ messages' = S[1]
           /\ metadata_messages' = S[2]
    /\ current_depth' = current_llm_calling_count + 3
    /\ skip_solution_generation' = FALSE
    /\ pc' = "solve_task"
    /\ UNCHANGED <<inflight, task_counter, current_llm_calling_count,
                   max_llm_calling_count, stack, exc, prompts, task_prompt,
                   result, error_message, replies>>

SolutionRetry == Instructed("Solution Retry")

SolutionContinuation == Instructed("Solution Continuation")

\* (d) the decomposition call
TaskDecomposition == CallLLM("Task Decomposition") /\ UNCHANGED pc /\ UNCHANGED frame_vars

\* the reply is parsed, the path goes one level down and the loop starts
TaskDecompositionReply ==
    /\ inflight = "Task Decomposition"
    /\ \E decompose_answer \in DecomposeReplies :
         stack' = Append(stack, [subtasks |-> subtasks_of(decompose_answer), i |-> 1,
                                 decompose_answer |-> decompose_answer])
    /\ LET S == AfterReply("Task Decomposition",
                           reply_body(replies, "Task Decomposition"), TRUE, TRUE)
       IN  /\ messages' = S[1]
           /\ metadata_messages' = S[2]
    /\ task_counter' = increase_order(task_counter)
    /\ inflight' = "none"
    /\ pc' = "recursion"
    /\ UNCHANGED <<current_llm_calling_count, max_llm_calling_count, current_depth,
                   skip_solution_generation, exc, prompts, task_prompt, result, error_message, replies>>

\* a subtask's recursion() returned and the loop has a next subtask
SubtaskComplete ==
    /\ pc = "return"
    /\ stack /= <<>>
    /\ Top.i < Len(Top.subtasks)
    /\ stack' = [stack EXCEPT ![Len(stack)].i = @ + 1]
    /\ task_counter' = increase_digit(task_counter)
    /\ pc' = "recursion"
    /\ UNCHANGED <<inflight, messages, metadata_messages, current_llm_calling_count,
                   max_llm_calling_count, current_depth, skip_solution_generation,
                   exc, prompts, task_prompt, result, error_message, replies>>

\* the last subtask returned: the path goes back up, the integration
\* instruction is appended, stamped and compacted, and solve_task is entered
\* again with the shared counter as its depth
SubtasksComplete ==
    /\ pc = "return"
    /\ stack /= <<>>
    /\ Top.i = Len(Top.subtasks)
    /\ stack' = Pop(stack)
    /\ task_counter' = reduce_order(task_counter)
    /\ LET S == safe_replace_prompt(
                    Stamped(Asked(Refreshed(Store), "Task Integration"),
                            task_counter', "Task Integration"),
                    "Task Integration", "short")
       IN  /\ messages' = S[1]
           /\ metadata_messages' = S[2]
    /\ current_depth' = current_llm_calling_count
    /\ skip_solution_generation' = FALSE
    /\ pc' = "solve_task"
    /\ UNCHANGED <<inflight, current_llm_calling_count, max_llm_calling_count,
                   exc, prompts, task_prompt, result, error_message, replies>>

\* a top level that would return the recovery's answer as it is
unformatted_recovery(from) == IF from = "Recovery" THEN "done" ELSE "Final Solution"

\* where the top-level call goes on once the tree returned ("return") or the
\* recovery answered ("Recovery"): to the final formatting call in both cases
final_formatting(from) == "Final Solution"

\* the root recursion() returned to the top-level call
AlgorithmComplete ==
    /\ pc = "return"
    /\ stack = <<>>
    /\ pc' = final_formatting("return")
    /\ UNCHANGED <<inflight, messages, metadata_messages>> /\ UNCHANGED frame_vars

\* an except clause that would swallow e and let the loop go on
absorbed(e) == "return"

\* what the except clause around a subtask's recursion() does with e
after_except(e) == "raise"

\* an exception leaves one decompose loop
Propagate ==
    /\ pc = "raise"
    /\ stack /= <<>>
    /\ pc' = after_except(exc)
    /\ stack' = IF pc' = "raise" THEN Pop(stack) ELSE stack
    /\ exc' = IF pc' = "raise" THEN exc ELSE "none"
    /\ UNCHANGED <<inflight, messages, metadata_messages, task_counter,
                   current_llm_calling_count, max_llm_calling_count, current_depth,
                   skip_solution_generation, prompts, task_prompt, result, error_message, replies>>

\* the top-level call catches RecursionError
ErrorRecovery ==
    /\ pc = "raise"
    /\ stack = <<>>
    /\ exc = "RecursionError"
    /\ pc' = "Recovery"
    /\ error_message' = exc
    /\ exc' = "none"
    /\ UNCHANGED <<inflight, messages, metadata_messages, task_counter,
                   current_llm_calling_count, max_llm_calling_count, current_depth,
                   skip_solution_generation, stack, prompts, task_prompt, result,
                   replies>>

\* any other exception leaves the top-level call
Failed ==
    /\ pc = "raise"
    /\ stack = <<>>
    /\ exc /= "RecursionError"
    /\ pc' = "failed"
    /\ result' = exc
    /\ UNCHANGED <<inflight, messages, metadata_messages, task_counter,
                   current_llm_calling_count, max_llm_calling_count, current_depth,
                   skip_solution_generation, stack, exc, prompts, task_prompt,
                   error_message, replies>>

\* handle_recursion_limit_exceeded: one call, no refresh, no stamp
Recovery == CallLLM("Recovery") /\ UNCHANGED pc /\ UNCHANGED frame_vars

RecoveryReply ==
    /\ inflight = "Recovery"
    /\ LET S == AfterReply("Recovery", reply_body(replies, "Recovery"), FALSE, FALSE)
       IN  /\ messages' = S[1]
           /\ metadata_messages' = S[2]
    /\ inflight' = "none"
    /\ pc' = final_formatting("Recovery")
    /\ UNCHANGED frame_vars

\* the final formatting call; the shared counter is reset before it
FinalSolution ==
    /\ CallLLM("Final Solution")
    /\ current_llm_calling_count' = 0
    /\ UNCHANGED <<pc, task_counter, max_llm_calling_count, current_depth,
                   skip_solution_generation, stack, exc, prompts, task_prompt,
                   result, error_message, replies>>

FinalSolutionReply ==
    /\ inflight = "Final Solution"
    /\ LET S == AfterReply("Final Solution", reply_body(replies, "Final Solution"), TRUE, FALSE)
       IN  /\ messages' = S[1]
           /\ metadata_messages' = S[2]
    /\ inflight' = "none"
    /\ pc' = "done"
    /\ result' = "final_formatted_result"
    /\ UNCHANGED <<task_counter, current_llm_calling_count, max_llm_calling_count,
                   current_depth, skip_solution_generation, stack, exc, prompts,
                   task_prompt, error_message, replies>>


\* ----------------------------------------------------------------- trimmer
\* longest message list the trimmer is run on
MaxMsgs == 3
\* largest ceiling the trimmer is run with
MaxCeiling == 4
\* passes of one while loop after which a run is no longer followed
MaxPasses == 3

VARIABLES
    agent,              \* the class whose __trim_context runs
    context_messages,   \* the list the context holds (self.context.messages)
    tmessages,          \* the list being trimmed (messages)
    original_messages,  \* the list as it was handed in
    max_total_tokens,   \* the ceiling
    start_index,        \* 1 when the first message is a system message (0-based)
    tpc,                \* the loop the trimmer is in
    passes              \* passes of the current while loop made so far

trim_vars == <<agent, context_messages, tmessages, original_messages, max_total_tokens,
               start_index, tpc, passes>>

\* a history that would be the list of the context itself
the_list == "self.messages"

\* get_message_history gives the trimmer self.messages.copy(), a list of its
\* own with the same messages
get_message_history == "copy"

\* del messages[i] acts on the list of the context when both are one list
context_list ==
    context_messages' = IF get_message_history = "copy" THEN context_messages ELSE tmessages'

\* the messages the lists are built from, each with its token estimate
MessagePool ==
    {[role |-> "system", content |-> "p", tokens |-> 2],
     [role |-> "system", content |-> "q", tokens |-> 2],
     [role |-> "user", content |-> "u", tokens |-> 1],
     [role |-> "assistant", content |-> "a", tokens |-> 3]}

MessageLists == UNION {[1..n -> MessagePool] : n \in 1..MaxMsgs}

RECURSIVE total_tokens(_)
total_tokens(msgs) ==
    IF msgs = <<>> THEN 0 ELSE Head(msgs).tokens + total_tokens(Tail(msgs))

\* del messages[i], i counted from 1
Delete(msgs, i) == SubSeq(msgs, 1, i - 1) \o SubSeq(msgs, i + 1, Len(msgs))

duplicate_found(msgs, i) ==
    \E j \in (i + 1)..Len(msgs) :
        msgs[j].role = "system" /\ msgs[j].content = msgs[i].content

RECURSIVE duplicates_pass(_, _, _)
\* one pass of the for loop of the first while loop, from position i (counted
\* from 1) on: <<the list after the pass, whether the while loop is left>>.
\* In ChatLLMAgent the else branch belongs to the if and ends the pass at the
\* first message that is not a system message; in ChatGPTAgent it belongs to
\* the for and leaves the while loop when the pass deleted nothing.
duplicates_pass(ag, msgs, i) ==
    IF i > Len(msgs) - 1 THEN <<msgs, ag = "ChatGPTAgent">>
    ELSE IF msgs[i].role = "system"
         THEN IF duplicate_found(msgs, i) THEN <<Delete(msgs, i), FALSE>>
              ELSE duplicates_pass(ag, msgs, i + 1)
         ELSE IF ag = "ChatLLMAgent" THEN <<msgs, FALSE>>
              ELSE duplicates_pass(ag, msgs, i + 1)

\* a loop condition that would stop with two messages after the prefix
keeps_two(msgs) ==
    total_tokens(msgs) > max_total_tokens /\ Len(msgs) > start_index + 2

while_condition(msgs) ==
    total_tokens(msgs) > max_total_tokens /\ Len(msgs) > start_index + 1

\* one evaluation of the first while loop's condition and, if it holds, one pass
RemoveDuplicates ==
    /\ tpc = "duplicates"
    /\ passes < MaxPasses
    /\ IF while_condition(tmessages)
       THEN /\ tmessages' = duplicates_pass(agent, tmessages, start_index + 1)[1]
            /\ tpc' = IF duplicates_pass(agent, tmessages, start_index + 1)[2]
                      THEN "oldest" ELSE "duplicates"
            /\ passes' = IF tpc' = "duplicates" THEN passes + 1 ELSE 0
       ELSE /\ tmessages' = tmessages
            /\ tpc' = "oldest"
            /\ passes' = 0
    /\ context_list
    /\ UNCHANGED <<agent, original_messages, max_total_tokens, start_index>>

\* one pass of the second while loop: the oldest unprotected message goes
RemoveOldest ==
    /\ tpc = "oldest"
    /\ IF while_condition(tmessages)
       THEN /\ tmessages' = Delete(tmessages, start_index + 1)
            /\ tpc' = "oldest"
            /\ passes' = passes + 1
       ELSE /\ tmessages' = tmessages
            /\ tpc' = IF total_tokens(tmessages) > max_total_tokens THEN "tail" ELSE "return"
            /\ passes' = 0
    /\ context_list
    /\ UNCHANGED <<agent, original_messages, max_total_tokens, start_index>>

RECURSIVE tail_scan_all(_, _)
\* a last loop that would go down to the first message
tail_scan_all(msgs, i) ==
    IF i < 1 THEN msgs
    ELSE IF msgs[i].role = "system"
         THEN IF total_tokens(Delete(msgs, i)) <= max_total_tokens THEN Delete(msgs, i)
              ELSE tail_scan_all(Delete(msgs, i), i - 1)
         ELSE tail_scan_all(msgs, i - 1)

RECURSIVE tail_scan(_, _)
\* the last for loop, from position i (counted from 1) down to the start
tail_scan(msgs, i) ==
    IF i < start_index + 1 THEN msgs
    ELSE IF msgs[i].role = "system"
         THEN IF total_tokens(Delete(msgs, i)) <= max_total_tokens THEN Delete(msgs, i)
              ELSE tail_scan(Delete(msgs, i), i - 1)
         ELSE tail_scan(msgs, i - 1)

\* the warning branch: system messages are dropped from the tail
RemoveSystemFromTail ==
    /\ tpc = "tail"
    /\ tmessages' = tail_scan(tmessages, Len(tmessages))
    /\ tpc' = "return"
    /\ context_list
    /\ UNCHANGED <<agent, original_messages, max_total_tokens, start_index, passes>>


\* ------------------------------------------------------------------- store
\* MessagesWithMetaData driven through its own operations on a bounded
\* message list: messages are appended, the last one is stamped, the
\* statuses are recomputed and the records of a type are compacted
MaxStored == 2
MaxDigit == 2

StoredTypes == {"Theory", "Solution"}

\* the shortened prompt of the engine, or nothing
ReplacementTexts == {"", "short"}

\* the counter after the command of add_metadata_in_last_message
commanded(tc, command_number) ==
    CASE command_number = 1 -> increase_digit(tc)
      [] command_number = 2 -> increase_order(tc)
      [] command_number = 3 -> reduce_order(tc)
      [] OTHER -> tc

\* the records that refer to the last message
OnLast == {i \in DOMAIN metadata_messages : metadata_messages[i].message = Len(messages)}

\* a message of the context, or one whose content is a plain string; as in
\* the engine, the message before it was stamped and the statuses are fresh
add_message ==
    /\ pc = "store"
    /\ exc = "none"
    /\ Len(messages) < MaxStored
    /\ messages /= <<>> => (OnLast /= {} /\ Refreshed(Store) = Store)
    /\ \E content \in {"list", "str"} :
          messages' = Append(messages,
                             [NewMessage("user", "stored", "lengthy") EXCEPT !.content = content])
    /\ UNCHANGED metadata_messages
    /\ UNCHANGED <<pc, inflight>> /\ UNCHANGED frame_vars

\* the message is stamped right after it was appended, and a message is
\* stamped again only under the path it was stamped with
\* with an empty log, or when the counter refuses the command, the call
\* raises before the record is appended; the exception ends the run
add_metadata_in_last_message ==
    /\ pc = "store"
    /\ exc = "none"
    /\ Len(metadata_messages) <= MaxStored
    /\ \E command_number \in 0..3, message_type \in StoredTypes :
          IF messages = <<>> \/ counter_raises(task_counter, command_number)
          THEN /\ exc' = "Exception"
               /\ UNCHANGED <<messages, metadata_messages, task_counter>>
          ELSE /\ exc' = exc
               /\ task_counter' = commanded(task_counter, command_number)
               /\ Len(task_counter') <= MaxDigit
               /\ \A k \in DOMAIN task_counter' : task_counter'[k] <= MaxDigit
               /\ \A i \in OnLast : metadata_messages[i].task_number = task_counter'
               /\ LET S == Stamped(Store, task_counter', message_type)
                  IN  /\ messages' = S[1]
                      /\ metadata_messages' = S[2]
    /\ UNCHANGED <<pc, inflight, current_llm_calling_count, max_llm_calling_count,
                   current_depth, skip_solution_generation, stack, prompts,
                   task_prompt, result, error_message, replies>>

\* update_all_messages_statuses, then rewrite_messages_content_with_updated_statuses
recompute_statuses ==
    /\ pc = "store"
    /\ exc = "none"
    /\ OnLast /= {}
    /\ messages' = Refreshed(Store)[1]
    /\ metadata_messages' = Refreshed(Store)[2]
    /\ UNCHANGED <<pc, inflight>> /\ UNCHANGED frame_vars

compact ==
    /\ pc = "store"
    /\ exc = "none"
    /\ OnLast /= {}
    /\ \E message_type \in StoredTypes \cup {""}, shortened_prompt \in ReplacementTexts :
          LET S == safe_replace_prompt(Store, message_type, shortened_prompt)
          IN  /\ messages' = S[1]
              /\ metadata_messages' = S[2]
    /\ UNCHANGED <<pc, inflight>> /\ UNCHANGED frame_vars

\* ----------------------------------------------------- MessageContext modes
\* MessageContext with its three modes, update_task_prompt, change_mod and
\* clone. A context holds references to message objects; objs is the heap
\* the messages live in, so that an edit in place of a message is seen by
\* every list that refers to it
MaxLog == 3

\* the messages of a context once there are two contexts
MaxCloned == 2

\* the largest analysis_depth of a reasoning in a scratch copy
MaxDepth == 1

VARIABLES
    contexts,   \* the contexts: mode, task_prompt, messages (references)
    objs,       \* the message objects, by reference
    last_op     \* the operation that was applied last, and the context

context_vars == <<contexts, objs, last_op>>

\* the message objects two contexts of MaxLog messages can hold, with two
\* to spare for the messages of a replaced list
ContextObjects == 2 * MaxLog + 2

\* the message objects of a context and its scratch copy
MaxObjects == 2 * MaxLog + 4 * MaxDepth + 6

Free == [role |-> "free", content |-> "", text |-> "", edited |-> FALSE]

TaskPrompts == {"", "standing", "revised"}

UserTexts == {"question", "remark"}

\* {"role": "system", "content": [{"type": "text", "text": task_prompt}]}
system_message(prompt) ==
    [role |-> "system", content |-> "list", text |-> prompt, edited |-> FALSE]

\* {"role": "system", "content": task_prompt}: the content is the string
instruction_message(prompt) ==
    [role |-> "system", content |-> "str", text |-> prompt, edited |-> FALSE]

\* {"role": role, "content": content} with the content list of add_*_message
converted(role, text) ==
    [role |-> role, content |-> "list", text |-> text, edited |-> FALSE]

\* a first mode that would keep what the list holds
keep_history(c, role, text) ==
    [replaced |-> FALSE,
     appended |-> <<system_message(c.task_prompt), converted(role, text)>>]

\* each mode gives the messages to append and whether the list is replaced
__add_message_mode_1(c, role, text) ==
    IF role = "user" /\ c.task_prompt /= ""
    THEN [replaced |-> TRUE,
          appended |-> <<system_message(c.task_prompt), converted(role, text)>>]
    ELSE IF role = "user"
    THEN [replaced |-> TRUE, appended |-> <<converted(role, text)>>]
    ELSE [replaced |-> FALSE, appended |-> <<converted(role, text)>>]

\* a second mode that would put the instruction before every message
seed_always(c, role, text) ==
    [replaced |-> FALSE,
     appended |-> (IF c.task_prompt /= "" THEN <<system_message(c.task_prompt)>> ELSE <<>>)
                  \o <<converted(role, text)>>]

__add_message_mode_2(c, role, text) ==
    [replaced |-> FALSE,
     appended |-> (IF c.task_prompt /= "" /\ Len(c.messages) = 0
                   THEN <<system_message(c.task_prompt)>> ELSE <<>>)
                  \o <<converted(role, text)>>]

\* a third mode that would put the instruction in once
seed_once(c, role, text) == __add_message_mode_2(c, role, text)

__add_message_mode_3(c, role, text) ==
    IF role = "user" /\ c.task_prompt /= ""
    THEN [replaced |-> FALSE,
          appended |-> <<system_message(c.task_prompt), converted(role, text)>>]
    ELSE [replaced |-> FALSE, appended |-> <<converted(role, text)>>]

\* add_user_message and add_assistant_message dispatch on the mode
dispatch(c, role, text) ==
    CASE c.mode = 1 -> __add_message_mode_1(c, role, text)
      [] c.mode = 2 -> __add_message_mode_2(c, role, text)
      [] c.mode = 3 -> __add_message_mode_3(c, role, text)

\* the references some context holds
Referenced(ctxs) == UNION {{ctxs[c].messages[k] : k \in DOMAIN ctxs[c].messages} : c \in DOMAIN ctxs}

\* n fresh references, the lowest ones no context holds
RECURSIVE fresh(_, _)
fresh(n, taken) ==
    IF n = 0 THEN <<>>
    ELSE LET id == Least((1..MaxObjects) \ taken)
         IN  <<id>> \o fresh(n - 1, taken \cup {id})

\* references are opaque, and an object no list holds is gone: the objects
\* are numbered in the order the lists hold them
Held(ctxs) ==
    IF Len(ctxs) = 1 THEN ctxs[1].messages ELSE ctxs[1].messages \o ctxs[2].messages

First(id, held) == Least({k \in DOMAIN held : held[k] = id})

Rank(id, held) == Cardinality({First(held[k], held) : k \in 1..First(id, held)})

collected(heap, ctxs) ==
    LET held == Held(ctxs)
    IN  <<[c \in DOMAIN ctxs |->
             [ctxs[c] EXCEPT !.messages =
                 [k \in DOMAIN ctxs[c].messages |-> Rank(ctxs[c].messages[k], held)]]],
          [id \in DOMAIN heap |->
             IF \E k \in DOMAIN held : Rank(held[k], held) = id
             THEN heap[held[CHOOSE k \in DOMAIN held : Rank(held[k], held) = id]]
             ELSE Free]>>

\* the log of a context as the messages themselves
Log(c) == [k \in DOMAIN contexts[c].messages |-> objs[contexts[c].messages[k]]]

\* a copy that would hold the same message objects
shared(ids, taken) == ids

\* copy.deepcopy(self.messages): a new list of new message objects
deepcopy(ids, taken) == fresh(Len(ids), taken)

LogBound == IF Len(contexts) = 1 THEN MaxLog ELSE MaxCloned

\* add_user_message / add_assistant_message
\* W is <<the contexts, the message objects>>
with_message(W, c, role, text) ==
    LET r == dispatch(W[1][c], role, text)
        kept == IF r.replaced THEN <<>> ELSE W[1][c].messages
        ids == fresh(Len(r.appended), Referenced(W[1]))
        ctxs == [W[1] EXCEPT ![c].messages = kept \o ids]
        heap == [id \in DOMAIN W[2] |->
                   IF \E k \in DOMAIN ids : ids[k] = id
                   THEN r.appended[CHOOSE k \in DOMAIN ids : ids[k] = id]
                   ELSE W[2][id]]
    IN  collected(heap, ctxs)

add_to_context(c, role, text) ==
    LET W == with_message(<<contexts, objs>>, c, role, text)
    IN  /\ Len(W[1][c].messages) <= LogBound
        /\ contexts' = W[1]
        /\ objs' = W[2]
        /\ last_op' = [op |-> role, ctx |-> c, text |-> text]

AddUserMessage ==
    \E c \in DOMAIN contexts, text \in UserTexts : add_to_context(c, "user", text)

AddAssistantMessage ==
    \E c \in DOMAIN contexts : add_to_context(c, "assistant", "reply")

\* update_task_prompt: in mode 2 a non-empty log gets a system message whose
\* content is the string itself
UpdateTaskPrompt ==
    \E c \in DOMAIN contexts, new_task_prompt \in TaskPrompts :
        LET appends == contexts[c].mode = 2 /\ Len(contexts[c].messages) > 0
            ids == IF appends THEN fresh(1, Referenced(contexts)) ELSE <<>>
            ctxs == [contexts EXCEPT ![c].task_prompt = new_task_prompt,
                                     ![c].messages = @ \o ids]
            heap == IF appends
                    THEN [objs EXCEPT ![ids[1]] = instruction_message(new_task_prompt)]
                    ELSE objs
        IN  /\ new_task_prompt /= contexts[c].task_prompt
            /\ Len(contexts[c].messages) + Len(ids) <= LogBound
            /\ contexts' = collected(heap, ctxs)[1]
            /\ objs' = collected(heap, ctxs)[2]
            /\ last_op' = [op |-> "update_task_prompt", ctx |-> c, text |-> new_task_prompt]

change_mod ==
    \E c \in DOMAIN contexts, new_mode \in 1..3 :
        /\ new_mode /= contexts[c].mode
        /\ contexts' = [contexts EXCEPT ![c].mode = new_mode]
        /\ objs' = objs
        /\ last_op' = [op |-> "change_mod", ctx |-> c, text |-> ""]

\* clone: a new context of the same mode and task_prompt, the messages copied
with_clone(W) ==
    LET ids == deepcopy(W[1][1].messages, Referenced(W[1]))
        ctxs == Append(W[1], [W[1][1] EXCEPT !.messages = ids])
        heap == [id \in DOMAIN W[2] |->
                   IF \E k \in DOMAIN ids : ids[k] = id /\ W[1][1].messages[k] /= id
                   THEN W[2][W[1][1].messages[CHOOSE k \in DOMAIN ids : ids[k] = id]]
                   ELSE W[2][id]]
    IN  collected(heap, ctxs)

clone ==
    /\ Len(contexts) = 1
    /\ Len(contexts[1].messages) <= MaxCloned
    /\ contexts' = with_clone(<<contexts, objs>>)[1]
    /\ objs' = with_clone(<<contexts, objs>>)[2]
    /\ last_op' = [op |-> "clone", ctx |-> 2, text |-> ""]

\* an edit in place of the content of a message a context holds: the stamp,
\* the status rewrite and the compaction assign to the message's text. One
\* edit is followed
EditInPlace ==
    \E c \in DOMAIN contexts, k \in 1..MaxLog :
        /\ k \in DOMAIN contexts[c].messages
        /\ ~objs[contexts[c].messages[k]].edited
        /\ \A id \in DOMAIN objs : ~objs[id].edited
        /\ objs' = [objs EXCEPT ![contexts[c].messages[k]].edited = TRUE]
        /\ contexts' = contexts
        /\ last_op' = [op |-> "edit", ctx |-> c, text |-> ""]

\* -------------------------------------------------------------- call layer
\* ChatLLMAgent.__init__ and the two retry-decorated provider calls
\* __call_openai_api (direct backend) and __call_open_router_api (routing
\* backend); the retry decorator is the one of the tenacity library
VARIABLES
    use_openai_or_openrouter, \* the provider argument of the constructor
    self_model_name,          \* the model name argument of the constructor
    api_key,                  \* whether the provider's credentials were given
    call_pc,                  \* position in constructor, call body, retry loop
    model_name,               \* the per-call model name, <<>> when not given
    response_format,          \* whether a structured answer is asked for
    attempt_number,           \* executions of the decorated body in this call
    requests,                 \* requests sent to the provider in this call
    clients,                  \* per-call clients opened and not closed
    failures,                 \* attempts of this call that raised
    outcome,                  \* what the latest attempt returned or raised
    returned,                 \* what the call returned to its caller
    raised,                   \* what the constructor or call raised
    request_model             \* the model of the request sent last, <<>> when none

call_vars == <<use_openai_or_openrouter, self_model_name, api_key, call_pc,
               model_name, response_format, attempt_number, requests, clients,
               failures, outcome, returned, raised, request_model>>

\* str.count
count(name, ch) == Cardinality({i \in DOMAIN name : name[i] = ch})

ModelNames == {<<"g", "p", "t">>, <<"o", "1">>, <<"v", "/", "m">>, <<"d", "/", "r">>}

Providers == {"openai", "openrouter", "other"}

\* the exception classes of the openai library and of this module
mro(cls) ==
    CASE cls = "RateLimitError" ->
            {"RateLimitError", "APIStatusError", "APIError", "Exception"}
      [] cls = "APIStatusError" -> {"APIStatusError", "APIError", "Exception"}
      [] cls = "APITimeoutError" ->
            {"APITimeoutError", "APIConnectionError", "APIError", "Exception"}
      [] cls = "APIConnectionError" ->
            {"APIConnectionError", "APIError", "Exception"}
      [] cls = "DeepSeekRouterError" -> {"DeepSeekRouterError", "Exception"}
      [] cls = "ValueError" -> {"ValueError", "Exception"}
      [] cls = "KeyError" -> {"KeyError", "Exception"}
      [] OTHER -> {}

isinstance(cls, types) == mro(cls) \cap types /= {}

Results == {"content", "parsed", "None"}

\* the decorators' arguments
stop_after_attempt == 10

\* a retry predicate that knows the rate limit only
retry_on_rate_limit(provider) == {"RateLimitError"}

retry_if_exception_type(provider) ==
    IF provider = "openai"
    THEN {"RateLimitError", "APITimeoutError"}
    ELSE {"APIError", "APIConnectionError", "APITimeoutError", "RateLimitError",
          "DeepSeekRouterError"}

reraise(provider) == provider /= "openai"

\* a body that would not look at the model name
unchecked(provider, name) == FALSE

\* the model name check at the head of both call bodies
model_name_error(provider, name) ==
    \/ provider = "openai" /\ name /= <<>> /\ count(name, "/") > 0
    \/ provider = "openrouter" /\ name /= <<>> /\ count(name, "/") = 0

\* the checks of the constructor
init_error(provider, name, key) ==
    IF provider /= "openai" /\ provider /= "openrouter" THEN TRUE
    ELSE IF provider = "openai"
         THEN IF count(name, "/") > 0 THEN TRUE ELSE ~key
         ELSE IF count(name, "/") = 0 THEN TRUE ELSE ~key

\* a finally block that would leave the client as it is
leave(n) == n

\* client.close() of the finally block
close(n) == n - 1

__init__ ==
    /\ call_pc = "new"
    /\ IF init_error(use_openai_or_openrouter, self_model_name, api_key)
       THEN call_pc' = "no agent" /\ raised' = "ValueError"
       ELSE call_pc' = "idle" /\ raised' = "none"
    /\ UNCHANGED <<use_openai_or_openrouter, self_model_name, api_key, request_model,
                   model_name, response_format, attempt_number, requests,
                   clients, failures, outcome, returned>>

\* response_from_LLM hands the call to self.call_llm
call_llm ==
    /\ call_pc \in {"idle", "returned", "raised"}
    /\ \E name \in ModelNames \cup {<<>>}, format \in BOOLEAN :
          /\ model_name' = name
          /\ response_format' = format
    /\ call_pc' = "attempt"
    /\ attempt_number' = 0
    /\ requests' = 0
    /\ failures' = 0
    /\ outcome' = "none"
    /\ returned' = "none"
    /\ raised' = "none"
    /\ request_model' = <<>>
    /\ UNCHANGED <<use_openai_or_openrouter, self_model_name, api_key, clients>>

\* the name the body works with
effective_model_name == IF model_name = <<>> THEN self_model_name ELSE model_name

\* the head of the decorated body, up to the try statement
Body ==
    /\ call_pc = "attempt"
    /\ attempt_number' = attempt_number + 1
    /\ IF model_name_error(use_openai_or_openrouter, effective_model_name)
       THEN /\ outcome' = "ValueError"
            /\ failures' = failures + 1
            /\ call_pc' = "retry"
       ELSE IF use_openai_or_openrouter = "openrouter" /\ ~api_key
       THEN /\ outcome' = "ValueError"
            /\ failures' = failures + 1
            /\ call_pc' = "retry"
       ELSE /\ outcome' = "none"
            /\ failures' = failures
            /\ call_pc' = IF use_openai_or_openrouter = "openai"
                          THEN "request" ELSE "client"
    /\ UNCHANGED <<use_openai_or_openrouter, self_model_name, api_key, request_model,
                   model_name, response_format, requests, clients, returned,
                   raised>>

\* what the provider can answer a request with
Answers_of_provider ==
    {"content", "refusal", "unparsable", "blank", "no choices",
     "RateLimitError", "APITimeoutError", "APIConnectionError",
     "APIStatusError", "KeyError"}

\* the try statement of __call_openai_api
openai_outcome(answered, format) ==
    CASE answered = "content" -> IF format THEN "parsed" ELSE "content"
      [] answered = "refusal" -> IF format THEN "None" ELSE "content"
      [] answered = "unparsable" -> IF format THEN "None" ELSE "content"
      [] answered = "blank" -> IF format THEN "None" ELSE "content"
      [] answered = "no choices" -> "None"
      [] isinstance(answered, {"APIError"}) -> answered
      [] OTHER -> "None"

\* the try statement of __call_open_router_api after the request
open_router_outcome(answered, format) ==
    CASE answered = "content" -> IF format THEN "parsed" ELSE "content"
      [] answered = "refusal" -> IF format THEN "ValueError" ELSE "content"
      [] answered = "unparsable" -> IF format THEN "ValueError" ELSE "content"
      [] answered = "blank" -> "DeepSeekRouterError"
      [] answered = "no choices" -> "DeepSeekRouterError"
      [] OTHER -> answered

\* the model argument of the request: parse(model=model_name, ...) of the
\* structured branch, create(model=self.model_name, ...) of the text branch
openai_request_model(format) ==
    IF format THEN effective_model_name ELSE self_model_name

RequestOpenAI ==
    /\ call_pc = "request"
    /\ use_openai_or_openrouter = "openai"
    /\ requests' = requests + 1
    /\ request_model' = openai_request_model(response_format)
    /\ \E answered \in Answers_of_provider :
          /\ outcome' = openai_outcome(answered, response_format)
          /\ failures' = IF outcome' \in Results THEN failures ELSE failures + 1
    /\ call_pc' = "retry"
    /\ UNCHANGED <<use_openai_or_openrouter, self_model_name, api_key,
                   model_name, response_format, attempt_number, clients,
                   returned, raised>>

\* client = OpenAI(...), the first statement of the try
OpenClient ==
    /\ call_pc = "client"
    /\ clients' = clients + 1
    /\ call_pc' = "convert"
    /\ UNCHANGED <<use_openai_or_openrouter, self_model_name, api_key, request_model,
                   model_name, response_format, attempt_number, requests,
                   failures, outcome, returned, raised>>

\* _convert_and_validate_messages: a message without role or content, or a
\* content item of an unknown type, is a ValueError
Convert ==
    /\ call_pc = "convert"
    /\ \E valid \in BOOLEAN :
          IF valid
          THEN call_pc' = "request" /\ outcome' = outcome /\ failures' = failures
          ELSE call_pc' = "finally" /\ outcome' = "ValueError"
               /\ failures' = failures + 1
    /\ UNCHANGED <<use_openai_or_openrouter, self_model_name, api_key, request_model,
                   model_name, response_format, attempt_number, requests,
                   clients, returned, raised>>

\* request_parameters["model"]
open_router_request_model == effective_model_name

RequestOpenRouter ==
    /\ call_pc = "request"
    /\ use_openai_or_openrouter = "openrouter"
    /\ requests' = requests + 1
    /\ request_model' = open_router_request_model
    /\ \E answered \in Answers_of_provider :
          /\ outcome' = open_router_outcome(answered, response_format)
          /\ failures' = IF outcome' \in Results THEN failures ELSE failures + 1
    /\ call_pc' = "finally"
    /\ UNCHANGED <<use_openai_or_openrouter, self_model_name, api_key,
                   model_name, response_format, attempt_number, clients,
                   returned, raised>>

\* the finally block of __call_open_router_api
Finally ==
    /\ call_pc = "finally"
    /\ clients' = IF clients > 0 THEN close(clients) ELSE clients
    /\ call_pc' = "retry"
    /\ UNCHANGED <<use_openai_or_openrouter, self_model_name, api_key, request_model,
                   model_name, response_format, attempt_number, requests,
                   failures, outcome, returned, raised>>

\* the retry loop of the decorator once the body has returned or raised
Retry ==
    /\ call_pc = "retry"
    /\ IF outcome \in Results
       THEN call_pc' = "returned" /\ returned' = outcome /\ raised' = raised
       ELSE IF ~isinstance(outcome, retry_if_exception_type(use_openai_or_openrouter))
       THEN call_pc' = "raised" /\ raised' = outcome /\ returned' = returned
       ELSE IF attempt_number >= stop_after_attempt
       THEN /\ call_pc' = "raised"
            /\ raised' = IF reraise(use_openai_or_openrouter)
                         THEN outcome ELSE "RetryError"
            /\ returned' = returned
       ELSE call_pc' = "attempt" /\ raised' = raised /\ returned' = returned
    /\ UNCHANGED <<use_openai_or_openrouter, self_model_name, api_key, request_model,
                   model_name, response_format, attempt_number, requests,
                   clients, failures, outcome>>

\* ------------------------------------------------ reasoning in a scratch copy
\* response_from_LLM_with_decomposition: the agent's context is cloned, the
\* agent works in the clone and takes its own context back before the final
\* answer is appended. contexts[1] is the agent's context at the call,
\* contexts[2] the clone. The hierarchical solve sets its scratch context up
\* in the same way; what it appends between the set-up and the final
\* formatting is the subject of the engine specification

VARIABLES
    self_context,    \* the context self.context refers to
    analysis_depth,  \* the argument
    preserve_user_messages_post_analysis,
    iteration,       \* the passes of the for loop made
    deep_pc,         \* the provider call in flight, "returned" or "raised"
    before           \* the method called and the agent's context at the call

deep_vars == <<self_context, analysis_depth, preserve_user_messages_post_analysis,
               iteration, deep_pc, before>>

\* what the provider call gives: a text, or None
Responses == {"reply", "None"}

\* the next user message of the scratch reasoning, and the call it is for
next_step(W, done) ==
    IF done < analysis_depth
    THEN with_message(W, self_context, "user", "roadmap item")
    ELSE with_message(W, self_context, "user", "final answer request")

\* up to the first provider call
DecompositionEnter ==
    /\ deep_pc = "call"
    /\ before.method = "response_from_LLM_with_decomposition"
    /\ IF analysis_depth < 1
       THEN /\ deep_pc' = "raised"
            /\ UNCHANGED <<contexts, objs, self_context>>
       ELSE LET copied == with_clone(<<contexts, objs>>)
                kept == IF preserve_user_messages_post_analysis
                        THEN with_message(copied, 1, "user", "question")
                        ELSE copied
                mode_2 == <<[kept[1] EXCEPT ![2].mode = 2], kept[2]>>
                entered == with_message(mode_2, 2, "user", "deep reasoning: question")
                asked == with_message(entered, 2, "user", "roadmap request")
            IN  /\ contexts' = asked[1]
                /\ objs' = asked[2]
                /\ self_context' = 2
                /\ deep_pc' = "roadmap"
    /\ UNCHANGED <<analysis_depth, preserve_user_messages_post_analysis, iteration,
                   before, last_op>>

\* the roadmap response, and the code up to the next provider call
RoadmapResponse ==
    /\ deep_pc = "roadmap"
    /\ \E roadmap_response \in Responses :
          IF roadmap_response = "None"
          THEN /\ deep_pc' = "returned"
               /\ UNCHANGED <<contexts, objs>>
          ELSE LET W == next_step(with_message(<<contexts, objs>>, self_context,
                                               "assistant", roadmap_response), 0)
               IN  /\ contexts' = W[1]
                   /\ objs' = W[2]
                   /\ deep_pc' = IF analysis_depth > 0 THEN "iteration" ELSE "final"
    /\ UNCHANGED <<self_context, analysis_depth, preserve_user_messages_post_analysis,
                   iteration, before, last_op>>

\* the response of one pass of the for loop
IterationResponse ==
    /\ deep_pc = "iteration"
    /\ \E assistant_response \in Responses :
          IF assistant_response = "None"
          THEN /\ deep_pc' = "returned"
               /\ UNCHANGED <<contexts, objs, iteration>>
          ELSE LET W == next_step(with_message(<<contexts, objs>>, self_context,
                                               "assistant", assistant_response),
                                  iteration + 1)
               IN  /\ contexts' = W[1]
                   /\ objs' = W[2]
                   /\ iteration' = iteration + 1
                   /\ deep_pc' = IF iteration + 1 < analysis_depth
                                 THEN "iteration" ELSE "final"
    /\ UNCHANGED <<self_context, analysis_depth, preserve_user_messages_post_analysis,
                   before, last_op>>

\* the final response: self.context = saved_context, then the answer
FinalResponse ==
    /\ deep_pc = "final"
    /\ \E assistant_response \in Responses :
          IF assistant_response = "None"
          THEN /\ deep_pc' = "returned"
               /\ UNCHANGED <<contexts, objs, self_context>>
          ELSE LET W == with_message(<<contexts, objs>>, 1, "assistant", assistant_response)
               IN  /\ self_context' = 1
                   /\ contexts' = W[1]
                   /\ objs' = W[2]
                   /\ deep_pc' = "returned"
    /\ UNCHANGED <<analysis_depth, preserve_user_messages_post_analysis, iteration,
                   before, last_op>>

\* the context set-up of the hierarchical solve: saved_context is a clone
\* taken before the user message is added to the agent's context, and
\* self.context becomes a clone of saved_context, which nothing refers to
\* afterwards: contexts[2] is that clone of the clone. The root instruction
\* is appended to it
HierarchicalEnter ==
    /\ deep_pc = "call"
    /\ before.method = "hierarchical"
    /\ LET saved_context == with_clone(<<contexts, objs>>)
           kept == IF preserve_user_messages_post_analysis
                   THEN with_message(saved_context, 1, "user", "question")
                   ELSE saved_context
           mode_2 == <<[kept[1] EXCEPT ![2].mode = 2], kept[2]>>
           instructed == with_message(mode_2, 2, "user", "Instruction")
       IN  /\ contexts' = instructed[1]
           /\ objs' = instructed[2]
           /\ self_context' = 2
           /\ deep_pc' = "recursion"
    /\ UNCHANGED <<analysis_depth, preserve_user_messages_post_analysis, iteration,
                   before, last_op>>

\* recursion(...) on self.context: it returns, or the budget signal is
\* handled, and the final formatting prompt is appended by response_from_LLM;
\* any other exception leaves the method
HierarchicalSolve ==
    /\ deep_pc = "recursion"
    /\ \E raises \in BOOLEAN :
          IF raises
          THEN /\ deep_pc' = "raised"
               /\ UNCHANGED <<contexts, objs>>
          ELSE LET solved == with_message(with_message(<<contexts, objs>>, self_context,
                                                       "user", "Task Statement"),
                                          self_context, "assistant", "reply")
                   W == with_message(solved, self_context, "user", "Final Solution")
               IN  /\ contexts' = W[1]
                   /\ objs' = W[2]
                   /\ deep_pc' = "final formatting"
    /\ UNCHANGED <<self_context, analysis_depth, preserve_user_messages_post_analysis,
                   iteration, before, last_op>>

\* the response to the final formatting prompt, appended by response_from_LLM
\* unless it is None; the method returns
HierarchicalReturn ==
    /\ deep_pc = "final formatting"
    /\ \E assistant_response \in Responses :
          /\ contexts' = IF assistant_response = "None" THEN contexts
                         ELSE with_message(<<contexts, objs>>, self_context,
                                           "assistant", assistant_response)[1]
          /\ objs' = IF assistant_response = "None" THEN objs
                     ELSE with_message(<<contexts, objs>>, self_context,
                                       "assistant", assistant_response)[2]
    /\ deep_pc' = "returned"
    /\ UNCHANGED <<self_context, analysis_depth, preserve_user_messages_post_analysis,
                   iteration, before, last_op>>

\* the context of an agent that had no exchange yet, or one
Exchanged(mode, prompt, n) ==
    LET new == <<<<[mode |-> mode, task_prompt |-> prompt, messages |-> <<>>]>>,
                 [id \in 1..MaxObjects |-> Free]>>
    IN  IF n = 0 THEN new
        ELSE with_message(with_message(new, 1, "user", "remark"), 1, "assistant", "reply")

DeepInit ==
    /\ \E mode \in 1..3, prompt \in {"", "standing"}, n \in 0..1 :
          /\ contexts = Exchanged(mode, prompt, n)[1]
          /\ objs = Exchanged(mode, prompt, n)[2]
    /\ last_op = [op |-> "none", ctx |-> 1, text |-> ""]
    /\ self_context = 1
    /\ analysis_depth \in 0..MaxDepth
    /\ preserve_user_messages_post_analysis \in BOOLEAN
    /\ iteration = 0
    /\ deep_pc = "call"
    /\ \E method \in {"response_from_LLM_with_decomposition", "hierarchical"} :
          before = [method |-> method, mode |-> contexts[1].mode,
                    task_prompt |-> contexts[1].task_prompt, log |-> Log(1)]

DeepIdle ==
    /\ self_context = 1
    /\ analysis_depth = 1
    /\ preserve_user_messages_post_analysis = TRUE
    /\ iteration = 0
    /\ deep_pc = "idle"
    /\ before = [method |-> "none", mode |-> 2, task_prompt |-> "", log |-> <<>>]

\* ------------------------------------------------------------ prompt files
\* load_prompts over a prompts directory and a shortened_prompts directory
\* in which a file is there or not
MaxTypes == 2

VARIABLES
    full_files,         \* prompts/<type>.txt: whether it is there, and its text
    shortened_files,    \* shortened_prompts/<type>_shortened.txt
    prompt_types,       \* the requested types
    full_prompts,       \* the first dictionary of the result
    shortened_prompts,  \* the second dictionary of the result
    loaded,             \* the passes of the for loop made so far
    load_pc             \* "loop" or "returned"

load_vars == <<full_files, shortened_files, prompt_types, full_prompts,
               shortened_prompts, loaded, load_pc>>

PromptTypes == {"theory_gen_prompt", "decompose_task_prompt"}

Files(texts) ==
    {[exists |-> FALSE, text |-> ""]} \cup {[exists |-> TRUE, text |-> t] : t \in texts}

\* open(...).read(), FileNotFoundError caught: the text, or "" with a warning
read_full(file) == IF file.exists THEN file.text ELSE ""

\* a load that would leave the shortened text empty when the file is missing
no_fallback(file, full_prompt) == IF file.exists THEN file.text ELSE ""

\* the shortened text, or the full one when the shortened file is missing
read_shortened(file, full_prompt) == IF file.exists THEN file.text ELSE full_prompt

\* dictionary[key] = value
set_item(dictionary, key, value) ==
    [k \in DOMAIN dictionary \cup {key} |-> IF k = key THEN value ELSE dictionary[k]]

\* one pass of the for loop over prompt_types
LoadPrompt ==
    /\ load_pc = "loop"
    /\ loaded < Len(prompt_types)
    /\ LET prompt_type == prompt_types[loaded + 1]
           full == set_item(full_prompts, prompt_type, read_full(full_files[prompt_type]))
       IN  /\ full_prompts' = full
           /\ shortened_prompts' =
                 set_item(shortened_prompts, prompt_type,
                          read_shortened(shortened_files[prompt_type], full[prompt_type]))
    /\ loaded' = loaded + 1
    /\ UNCHANGED <<full_files, shortened_files, prompt_types, load_pc>>

\* return full_prompts, shortened_prompts
LoadReturn ==
    /\ load_pc = "loop"
    /\ loaded = Len(prompt_types)
    /\ load_pc' = "returned"
    /\ UNCHANGED <<full_files, shortened_files, prompt_types, full_prompts,
                   shortened_prompts, loaded>>

LoadInit ==
    /\ full_files \in [PromptTypes -> Files({"", "full"})]
    /\ shortened_files \in [PromptTypes -> Files({"", "short"})]
    /\ prompt_types \in UNION {[1..n -> PromptTypes] : n \in 0..MaxTypes}
    /\ full_prompts = <<>>
    /\ shortened_prompts = <<>>
    /\ loaded = 0
    /\ load_pc = "loop"

LoadIdle ==
    /\ full_files = [t \in PromptTypes |-> [exists |-> FALSE, text |-> ""]]
    /\ shortened_files = [t \in PromptTypes |-> [exists |-> FALSE, text |-> ""]]
    /\ prompt_types = <<>>
    /\ full_prompts = <<>>
    /\ shortened_prompts = <<>>
    /\ loaded = 0
    /\ load_pc = "returned"

\* ------------------------------------------------------------- agent clone
\* ChatLLMAgent.clone: the context is cloned and the store is rebuilt over
\* the messages of the cloned context
VARIABLE cloned_agent   \* the store of the cloned agent: messages, records, path

clone_vars == <<cloned_agent>>

\* characters of a status and of convert_to_str of a path
StatusLen(status) ==
    CASE status = ""                        -> 0
      [] status = "in_progress"             -> 11
      [] status = "parent_for_current_task" -> 23
      [] status = "subtask_resolved"        -> 16
      [] status = "resolved"                -> 8
      [] OTHER                              -> 52

PathLen(tc) == IF tc = <<>> THEN 8 ELSE 2 * Len(tc)

TypeLen(message_type) == IF message_type = "Theory" THEN 6 ELSE 8

\* how many of the first 50 characters of an annotated text are left once
\* the indent, the path, the status and the words around them are counted
type_room(m) == 25 - m.ind - PathLen(m.ann[1].path) - StatusLen(m.ann[1].status)

\* role and the first 50 characters of the text: of the first annotation
\* line as much as fits (the types of the store differ in their first
\* character), and the beginning of what follows it when there is room
signature(m) ==
    IF m.ann = <<>>
    THEN [role |-> m.role, ind |-> m.ind, annotated |-> FALSE, path |-> <<>>,
          status |-> "", type |-> "", rest |-> m.body]
    ELSE [role |-> m.role, ind |-> m.ind, annotated |-> TRUE, path |-> m.ann[1].path,
          status |-> m.ann[1].status,
          type |-> IF type_room(m) > 0 THEN m.ann[1].type ELSE "",
          rest |-> IF type_room(m) > TypeLen(m.ann[1].type) + 3
                   THEN (IF Len(m.ann) > 1 THEN "annotation" ELSE m.body)
                   ELSE ""]

\* metadata_dict: the last record whose message has the signature
metadata_dict(S, sig) ==
    {k \in DOMAIN S[2] : signature(S[1][S[2][k].message]) = sig}

\* the annotations of a text the two patterns find: status needs one
\* character at least
status_match(m) == {k \in DOMAIN m.ann : m.ann[k].status /= ""}

\* the store of the clone after add_metadata_in_last_message(status, type, 0)
restamped(C, tc, status, message_type, shortened) ==
    <<stamp_message(C[1], tc, status, message_type),
      Append(C[2], [stamp_record(C[1], tc, status, message_type)
                       EXCEPT !.shortened = shortened])>>

RECURSIVE reconstruct(_, _, _, _)
\* the loop over the messages of the cloned context: C is the store of the
\* clone so far, S the store that is cloned, tc the path of both
reconstruct(S, tc, C, rest_of_list) ==
    IF rest_of_list = <<>> THEN C
    ELSE LET msg == Head(rest_of_list)
             appended == <<Append(C[1], msg), C[2]>>
             found == metadata_dict(S, signature(msg))
             meta == S[2][Greatest(found)]
         IN  reconstruct(S, tc,
                 IF found /= {}
                 THEN restamped(appended, tc, meta.status, meta.type, meta.shortened)
                 ELSE IF status_match(msg) /= {}
                 THEN restamped(appended, tc, msg.ann[Least(status_match(msg))].status,
                                msg.ann[1].type, FALSE)
                 ELSE appended,
                 Tail(rest_of_list))

\* MessagesWithMetaData.clone
MessagesWithMetaData_clone(S, tc, new_messages_list) ==
    IF S[2] = <<>> \/ new_messages_list = <<>> \/ S[1] = <<>>
    THEN [messages |-> new_messages_list, metadata_messages |-> <<>>, task_counter |-> tc]
    ELSE LET C == reconstruct(S, tc, <<<<>>, <<>>>>, new_messages_list)
         IN  [messages |-> C[1], metadata_messages |-> C[2], task_counter |-> tc]

\* ChatLLMAgent.clone: the store is cloned over the deep copy of the
\* messages the cloned context holds
ChatLLMAgent_clone ==
    /\ pc = "store"
    /\ exc = "none"
    /\ cloned_agent' = MessagesWithMetaData_clone(Store, task_counter, messages)
    /\ pc' = "cloned"
    /\ UNCHANGED <<inflight, messages, metadata_messages>> /\ UNCHANGED frame_vars

NoAgent == [messages |-> <<>>, metadata_messages |-> <<>>, task_counter |-> <<>>]

CloneIdle == cloned_agent = NoAgent

\* ---------------------------------------------------------- specifications
\* sys.maxsize, the limit an agent is constructed with
maxsize == 2147483647

\* an earlier exchange the bound context may hold before the solve
History ==
    <<NewMessage("user", "history", "brief"), NewMessage("assistant", "history", "brief")>>

\* the set-ups a solve is started in: what load_prompts found, how long the
\* model's replies are, the standing instruction and the earlier history
Configurations ==
    {[prompts |-> "typical", replies |-> "brief", task_prompt |-> "", messages |-> <<>>],
     [prompts |-> "typical", replies |-> "lengthy", task_prompt |-> "task_prompt",
      messages |-> History],
     [prompts |-> "fallback", replies |-> "mixed", task_prompt |-> "task_prompt",
      messages |-> <<>>],
     [prompts |-> "missing", replies |-> "lengthy", task_prompt |-> "",
      messages |-> History]}

EngineInit ==
    /\ pc = "start"
    /\ inflight = "none"
    /\ \E c \in Configurations :
         /\ prompts = c.prompts
         /\ replies = c.replies
         /\ task_prompt = c.task_prompt
         /\ messages = c.messages
    /\ metadata_messages = <<>>
    /\ task_counter = <<>>
    /\ current_llm_calling_count = 0
    /\ max_llm_calling_count = maxsize
    /\ current_depth = 0
    /\ skip_solution_generation = FALSE
    /\ stack = <<>>
    /\ exc = "none"
    /\ result = "none"
    /\ error_message = "none"

EngineIdle ==
    /\ pc = "idle"
    /\ inflight = "none"
    /\ task_prompt = ""
    /\ messages = <<>>
    /\ metadata_messages = <<>>
    /\ task_counter = <<>>
    /\ current_llm_calling_count = 0
    /\ max_llm_calling_count = maxsize
    /\ current_depth = 0
    /\ skip_solution_generation = FALSE
    /\ stack = <<>>
    /\ exc = "none"
    /\ prompts = "typical"
    /\ result = "none"
    /\ error_message = "none"
    /\ replies = "brief"

TrimInit ==
    /\ agent \in {"ChatLLMAgent", "ChatGPTAgent"}
    /\ tmessages \in MessageLists
    /\ context_messages = tmessages
    /\ original_messages = tmessages
    /\ max_total_tokens \in 0..MaxCeiling
    /\ start_index = IF tmessages[1].role = "system" THEN 1 ELSE 0
    /\ tpc = "duplicates"
    /\ passes = 0

TrimIdle ==
    /\ agent = "none"
    /\ tmessages = <<>>
    /\ context_messages = <<>>
    /\ original_messages = <<>>
    /\ max_total_tokens = 0
    /\ start_index = 0
    /\ tpc = "idle"
    /\ passes = 0

\* longest reply text, in chunks, the parser is run on
MaxChunks == 2

Answers == UNION {[1..n -> Chunks] : n \in 0..MaxChunks}

ParseInit ==
    /\ answer \in Answers
    /\ code = "none"

ParseIdle ==
    /\ answer = <<>>
    /\ code = "parsed"

\* parsing_action_function(action_txt)
Parse ==
    /\ code = "none"
    /\ code' = parsing_action_function(Text(answer))
    /\ UNCHANGED answer

CallInit ==
    /\ use_openai_or_openrouter \in Providers
    /\ self_model_name \in ModelNames
    /\ api_key \in BOOLEAN
    /\ call_pc = "new"
    /\ model_name = <<>>
    /\ response_format = FALSE
    /\ attempt_number = 0
    /\ requests = 0
    /\ clients = 0
    /\ failures = 0
    /\ outcome = "none"
    /\ returned = "none"
    /\ raised = "none"
    /\ request_model = <<>>

CallIdle ==
    /\ use_openai_or_openrouter = "openai"
    /\ self_model_name = <<"g", "p", "t">>
    /\ api_key = TRUE
    /\ call_pc = "idle"
    /\ model_name = <<>>
    /\ response_format = FALSE
    /\ attempt_number = 0
    /\ requests = 0
    /\ clients = 0
    /\ failures = 0
    /\ outcome = "none"
    /\ returned = "none"
    /\ raised = "none"
    /\ request_model = <<>>

ContextInit ==
    /\ \E mode \in 1..3, prompt \in {"", "standing"} :
          contexts = <<[mode |-> mode, task_prompt |-> prompt, messages |-> <<>>]>>
    /\ objs = [id \in 1..ContextObjects |-> Free]
    /\ last_op = [op |-> "none", ctx |-> 1, text |-> ""]

ContextIdle ==
    /\ contexts = <<[mode |-> 2, task_prompt |-> "", messages |-> <<>>]>>
    /\ objs = [id \in 1..ContextObjects |-> Free]
    /\ last_op = [op |-> "none", ctx |-> 1, text |-> ""]

vars == <<engine_vars, replies, parse_vars, trim_vars, call_vars, context_vars, load_vars, deep_vars, clone_vars>>

Init == EngineInit /\ ParseIdle /\ TrimIdle /\ CallIdle /\ ContextIdle /\ LoadIdle /\ DeepIdle /\ CloneIdle

Next ==
    \/ Start /\ UNCHANGED <<parse_vars, trim_vars, call_vars, context_vars, load_vars, deep_vars, clone_vars>>
    \/ TaskStatement /\ UNCHANGED <<parse_vars, trim_vars, call_vars, context_vars, load_vars, deep_vars, clone_vars>>
    \/ Theory /\ UNCHANGED <<parse_vars, trim_vars, call_vars, context_vars, load_vars, deep_vars, clone_vars>>
    \/ TheoryReply /\ UNCHANGED <<parse_vars, trim_vars, call_vars, context_vars, load_vars, deep_vars, clone_vars>>
    \/ QualityCriteria /\ UNCHANGED <<parse_vars, trim_vars, call_vars, context_vars, load_vars, deep_vars, clone_vars>>
    \/ QualityCriteriaReply /\ UNCHANGED <<parse_vars, trim_vars, call_vars, context_vars, load_vars, deep_vars, clone_vars>>
    \/ solve_task /\ UNCHANGED <<parse_vars, trim_vars, call_vars, context_vars, load_vars, deep_vars, clone_vars>>
    \/ Solution /\ UNCHANGED <<parse_vars, trim_vars, call_vars, context_vars, load_vars, deep_vars, clone_vars>>
    \/ SolutionReply /\ UNCHANGED <<parse_vars, trim_vars, call_vars, context_vars, load_vars, deep_vars, clone_vars>>
    \/ SolutionVerification /\ UNCHANGED <<parse_vars, trim_vars, call_vars, context_vars, load_vars, deep_vars, clone_vars>>
    \/ SolutionVerificationReply /\ UNCHANGED <<parse_vars, trim_vars, call_vars, context_vars, load_vars, deep_vars, clone_vars>>
    \/ StrategySelection /\ UNCHANGED <<parse_vars, trim_vars, call_vars, context_vars, load_vars, deep_vars, clone_vars>>
    \/ StrategySelectionReply /\ UNCHANGED <<parse_vars, trim_vars, call_vars, context_vars, load_vars, deep_vars, clone_vars>>
    \/ SolutionAccepted /\ UNCHANGED <<parse_vars, trim_vars, call_vars, context_vars, load_vars, deep_vars, clone_vars>>
    \/ SolutionRetry /\ UNCHANGED <<parse_vars, trim_vars, call_vars, context_vars, load_vars, deep_vars, clone_vars>>
    \/ SolutionContinuation /\ UNCHANGED <<parse_vars, trim_vars, call_vars, context_vars, load_vars, deep_vars, clone_vars>>
    \/ TaskDecomposition /\ UNCHANGED <<parse_vars, trim_vars, call_vars, context_vars, load_vars, deep_vars, clone_vars>>
    \/ TaskDecompositionReply /\ UNCHANGED <<parse_vars, trim_vars, call_vars, context_vars, load_vars, deep_vars, clone_vars>>
    \/ SubtaskComplete /\ UNCHANGED <<parse_vars, trim_vars, call_vars, context_vars, load_vars, deep_vars, clone_vars>>
    \/ SubtasksComplete /\ UNCHANGED <<parse_vars, trim_vars, call_vars, context_vars, load_vars, deep_vars, clone_vars>>
    \/ AlgorithmComplete /\ UNCHANGED <<parse_vars, trim_vars, call_vars, context_vars, load_vars, deep_vars, clone_vars>>
    \/ Propagate /\ UNCHANGED <<parse_vars, trim_vars, call_vars, context_vars, load_vars, deep_vars, clone_vars>>
    \/ ErrorRecovery /\ UNCHANGED <<parse_vars, trim_vars, call_vars, context_vars, load_vars, deep_vars, clone_vars>>
    \/ Failed /\ UNCHANGED <<parse_vars, trim_vars, call_vars, context_vars, load_vars, deep_vars, clone_vars>>
    \/ Recovery /\ UNCHANGED <<parse_vars, trim_vars, call_vars, context_vars, load_vars, deep_vars, clone_vars>>
    \/ RecoveryReply /\ UNCHANGED <<parse_vars, trim_vars, call_vars, context_vars, load_vars, deep_vars, clone_vars>>
    \/ FinalSolution /\ UNCHANGED <<parse_vars, trim_vars, call_vars, context_vars, load_vars, deep_vars, clone_vars>>
    \/ FinalSolutionReply /\ UNCHANGED <<parse_vars, trim_vars, call_vars, context_vars, load_vars, deep_vars, clone_vars>>

Spec == Init /\ [][Next]_vars

\* the positions of the top-level call
Positions ==
    {"start", "recursion", "Theory", "Quality Criteria", "solve_task", "Solution",
     "Solution Verification", "Strategy Selection", "Solution Accepted",
     "Solution Retry", "Solution Continuation", "Task Decomposition", "return",
     "raise", "Recovery", "Final Solution", "done", "failed"}

\* the top-level call returned or raised
Ended == pc \in {"done", "failed"}

\* a call that has not ended goes on: it is at some position afterwards,
\* with or without a provider call under way
Runs ==
    /\ ~Ended
    /\ pc' \in Positions
    /\ inflight' \in Positions \cup {"none"}

\* the solve as the interpreter runs it: a call that has not ended moves to
\* its next position, and every provider call is answered
SpecLive == Init /\ [][Next]_vars /\ WF_<<pc, inflight>>(Runs)

InitTrim == TrimInit /\ EngineIdle /\ ParseIdle /\ CallIdle /\ ContextIdle /\ LoadIdle /\ DeepIdle /\ CloneIdle

NextTrim ==
    \/ RemoveDuplicates /\ UNCHANGED <<engine_vars, replies, parse_vars, call_vars, context_vars, load_vars, deep_vars, clone_vars>>
    \/ RemoveOldest /\ UNCHANGED <<engine_vars, replies, parse_vars, call_vars, context_vars, load_vars, deep_vars, clone_vars>>
    \/ RemoveSystemFromTail /\ UNCHANGED <<engine_vars, replies, parse_vars, call_vars, context_vars, load_vars, deep_vars, clone_vars>>

SpecTrim == InitTrim /\ [][NextTrim]_vars

InitParse == ParseInit /\ EngineIdle /\ TrimIdle /\ CallIdle /\ ContextIdle /\ LoadIdle /\ DeepIdle /\ CloneIdle

NextParse == Parse /\ UNCHANGED <<engine_vars, replies, trim_vars, call_vars, context_vars, load_vars, deep_vars, clone_vars>>

SpecParse == InitParse /\ [][NextParse]_vars

InitCall == CallInit /\ EngineIdle /\ ParseIdle /\ TrimIdle /\ ContextIdle /\ LoadIdle /\ DeepIdle /\ CloneIdle

NextCall ==
    \/ __init__ /\ UNCHANGED <<engine_vars, replies, parse_vars, trim_vars, context_vars, load_vars, deep_vars, clone_vars>>
    \/ call_llm /\ UNCHANGED <<engine_vars, replies, parse_vars, trim_vars, context_vars, load_vars, deep_vars, clone_vars>>
    \/ Body /\ UNCHANGED <<engine_vars, replies, parse_vars, trim_vars, context_vars, load_vars, deep_vars, clone_vars>>
    \/ RequestOpenAI /\ UNCHANGED <<engine_vars, replies, parse_vars, trim_vars, context_vars, load_vars, deep_vars, clone_vars>>
    \/ OpenClient /\ UNCHANGED <<engine_vars, replies, parse_vars, trim_vars, context_vars, load_vars, deep_vars, clone_vars>>
    \/ Convert /\ UNCHANGED <<engine_vars, replies, parse_vars, trim_vars, context_vars, load_vars, deep_vars, clone_vars>>
    \/ RequestOpenRouter /\ UNCHANGED <<engine_vars, replies, parse_vars, trim_vars, context_vars, load_vars, deep_vars, clone_vars>>
    \/ Finally /\ UNCHANGED <<engine_vars, replies, parse_vars, trim_vars, context_vars, load_vars, deep_vars, clone_vars>>
    \/ Retry /\ UNCHANGED <<engine_vars, replies, parse_vars, trim_vars, context_vars, load_vars, deep_vars, clone_vars>>

SpecCall == InitCall /\ [][NextCall]_vars

StoreInit ==
    /\ pc = "store"
    /\ inflight = "none"
    /\ task_prompt = ""
    /\ messages = <<>>
    /\ metadata_messages = <<>>
    /\ task_counter = <<>>
    /\ current_llm_calling_count = 0
    /\ max_llm_calling_count = maxsize
    /\ current_depth = 0
    /\ skip_solution_generation = FALSE
    /\ stack = <<>>
    /\ exc = "none"
    /\ prompts = "typical"
    /\ result = "none"
    /\ error_message = "none"
    /\ replies = "brief"

InitStore == StoreInit /\ ParseIdle /\ TrimIdle /\ CallIdle /\ ContextIdle /\ LoadIdle /\ DeepIdle /\ CloneIdle

NextStore ==
    \/ add_message /\ UNCHANGED <<parse_vars, trim_vars, call_vars, context_vars, load_vars, deep_vars, clone_vars>>
    \/ add_metadata_in_last_message /\ UNCHANGED <<parse_vars, trim_vars, call_vars, context_vars, load_vars, deep_vars, clone_vars>>
    \/ recompute_statuses /\ UNCHANGED <<parse_vars, trim_vars, call_vars, context_vars, load_vars, deep_vars, clone_vars>>
    \/ compact /\ UNCHANGED <<parse_vars, trim_vars, call_vars, context_vars, load_vars, deep_vars, clone_vars>>

SpecStore == InitStore /\ [][NextStore]_vars

InitAgent == InitStore

NextAgent ==
    \/ add_message /\ UNCHANGED <<parse_vars, trim_vars, call_vars, context_vars, load_vars, deep_vars, clone_vars>>
    \/ add_metadata_in_last_message /\ UNCHANGED <<parse_vars, trim_vars, call_vars, context_vars, load_vars, deep_vars, clone_vars>>
    \/ recompute_statuses /\ UNCHANGED <<parse_vars, trim_vars, call_vars, context_vars, load_vars, deep_vars, clone_vars>>
    \/ compact /\ UNCHANGED <<parse_vars, trim_vars, call_vars, context_vars, load_vars, deep_vars, clone_vars>>
    \/ ChatLLMAgent_clone /\ UNCHANGED <<parse_vars, trim_vars, call_vars, context_vars, load_vars, deep_vars>>

SpecAgent == InitAgent /\ [][NextAgent]_vars

InitContext == ContextInit /\ EngineIdle /\ ParseIdle /\ TrimIdle /\ CallIdle /\ LoadIdle /\ DeepIdle /\ CloneIdle

NextContext ==
    \/ AddUserMessage /\ UNCHANGED <<engine_vars, replies, parse_vars, trim_vars, call_vars, load_vars, deep_vars, clone_vars>>
    \/ AddAssistantMessage /\ UNCHANGED <<engine_vars, replies, parse_vars, trim_vars, call_vars, load_vars, deep_vars, clone_vars>>
    \/ UpdateTaskPrompt /\ UNCHANGED <<engine_vars, replies, parse_vars, trim_vars, call_vars, load_vars, deep_vars, clone_vars>>
    \/ change_mod /\ UNCHANGED <<engine_vars, replies, parse_vars, trim_vars, call_vars, load_vars, deep_vars, clone_vars>>

SpecContext == InitContext /\ [][NextContext]_vars

NextClone ==
    \/ AddUserMessage /\ UNCHANGED <<engine_vars, replies, parse_vars, trim_vars, call_vars, load_vars, deep_vars, clone_vars>>
    \/ AddAssistantMessage /\ UNCHANGED <<engine_vars, replies, parse_vars, trim_vars, call_vars, load_vars, deep_vars, clone_vars>>
    \/ clone /\ UNCHANGED <<engine_vars, replies, parse_vars, trim_vars, call_vars, load_vars, deep_vars, clone_vars>>
    \/ EditInPlace /\ UNCHANGED <<engine_vars, replies, parse_vars, trim_vars, call_vars, load_vars, deep_vars, clone_vars>>

SpecClone == InitContext /\ [][NextClone]_vars

InitLoad == LoadInit /\ EngineIdle /\ ParseIdle /\ TrimIdle /\ CallIdle /\ ContextIdle /\ DeepIdle /\ CloneIdle

NextLoad ==
    \/ LoadPrompt /\ UNCHANGED <<engine_vars, replies, parse_vars, trim_vars, call_vars, context_vars, deep_vars, clone_vars>>
    \/ LoadReturn /\ UNCHANGED <<engine_vars, replies, parse_vars, trim_vars, call_vars, context_vars, deep_vars, clone_vars>>

SpecLoad == InitLoad /\ [][NextLoad]_vars

InitDeep == DeepInit /\ EngineIdle /\ ParseIdle /\ TrimIdle /\ CallIdle /\ LoadIdle /\ CloneIdle

NextDeep ==
    \/ DecompositionEnter /\ UNCHANGED <<engine_vars, replies, parse_vars, trim_vars, call_vars, load_vars, clone_vars>>
    \/ RoadmapResponse /\ UNCHANGED <<engine_vars, replies, parse_vars, trim_vars, call_vars, load_vars, clone_vars>>
    \/ IterationResponse /\ UNCHANGED <<engine_vars, replies, parse_vars, trim_vars, call_vars, load_vars, clone_vars>>
    \/ FinalResponse /\ UNCHANGED <<engine_vars, replies, parse_vars, trim_vars, call_vars, load_vars, clone_vars>>
    \/ HierarchicalEnter /\ UNCHANGED <<engine_vars, replies, parse_vars, trim_vars, call_vars, load_vars, clone_vars>>
    \/ HierarchicalSolve /\ UNCHANGED <<engine_vars, replies, parse_vars, trim_vars, call_vars, load_vars, clone_vars>>
    \/ HierarchicalReturn /\ UNCHANGED <<engine_vars, replies, parse_vars, trim_vars, call_vars, load_vars, clone_vars>>

SpecDeep == InitDeep /\ [][NextDeep]_vars


\* ------------------------------------------------------------- properties
\* the phases whose provider calls are made inside the recursion tree
TreePhases ==
    {"Theory", "Quality Criteria", "Solution", "Solution Verification",
     "Strategy Selection", "Task Decomposition"}

\* positions of the prompts of the provider calls of the given phases
Calls(phases) ==
    {i \in DOMAIN messages : messages[i].role = "user" /\ messages[i].kind \in phases}

\* positions of the messages the solve appended to the bound context
Appended == {i \in DOMAIN messages : messages[i].kind \notin {"history", "task_prompt"}}

Last(seq) == seq[Len(seq)]

\* C1: every pass of a while loop of __trim_context removes a message or
\* leaves the loop, so trimming terminates on every list and ceiling
C1_EveryPassRemovesOrExits ==
    [][passes' > passes => Len(tmessages') < Len(tmessages)]_vars

\* C2: the provider calls issued inside the recursion tree never number more
\* than max_llm_calling_count
C2_TreeCallsWithinBudget ==
    pc \notin {"start", "idle"} => Cardinality(Calls(TreePhases)) <= max_llm_calling_count

\* C3: after the integration instruction the node's next provider call is the
\* verification: no solution generation call directly follows the instruction
C3_VerifyFollowsIntegration ==
    inflight = "Solution" => messages[Len(messages) - 1].kind /= "Task Integration"

\* C4: while a provider call is in flight every record's status is the
\* classification of its path against the last record's path, none is empty,
\* and the annotation in the message text shows it
C4_StatusesFreshAtCall ==
    inflight /= "none" =>
        \A i \in DOMAIN metadata_messages :
            LET r == metadata_messages[i] IN
            /\ r.status /= ""
            /\ r.status = new_status(r.task_number, Last(metadata_messages).task_number)
            /\ \A k \in DOMAIN messages[r.message].ann :
                   messages[r.message].ann[k].status = r.status

\* C5: between engine steps the store holds exactly one record for every
\* message the solve appended, in append order
C5_OneRecordPerMessage ==
    inflight = "none" =>
        /\ \A i \in Appended : \E k \in DOMAIN metadata_messages :
               metadata_messages[k].message = i
        /\ \A k, l \in DOMAIN metadata_messages :
               k < l => metadata_messages[k].message < metadata_messages[l].message

\* C6: compaction never replaces the text of an assistant-role response
C6_CompactionSparesResponses ==
    \A i \in DOMAIN messages : messages[i].role = "assistant" => messages[i].body /= "short"

\* C7: the action parser returns one of the four action letters for every
\* reply text and never raises
C7_ParserTotal ==
    code /= "none" => code \in {"~a", "~b", "~v", "~g"}


\* C8: a raised budget error passes every decompose loop unabsorbed up to the
\* top level, which makes exactly one recovery call and returns an answer:
\* a solve that caught the error ends with one recovery call and a result,
\* a solve that caught none makes no recovery call, and the error never
\* leaves the top-level call
C8_BudgetErrorRecovered ==
    /\ [][(pc = "raise" /\ exc = "RecursionError") =>
            /\ pc' \in {"raise", "Recovery"}
            /\ pc' = "raise" => (exc' = exc /\ stack /= <<>> /\ stack' = Pop(stack))
            /\ pc' = "Recovery" => (stack = <<>> /\ error_message' = "RecursionError")]_vars
    /\ [](Cardinality(Calls({"Recovery"})) =
            IF error_message /= "none" /\ ~(pc = "Recovery" /\ inflight = "none")
            THEN 1 ELSE 0)
    /\ []((pc = "done" /\ error_message /= "none") => result = "final_formatted_result")
    /\ [](pc = "failed" => result /= "RecursionError")

\* a solve that ended after a budget error raised inside a subtask
C8_Witness ==
    /\ pc = "done"
    /\ error_message = "RecursionError"
    /\ task_counter /= <<>>
    /\ Cardinality(Calls({"Recovery"})) = 1

\* C9: a solve that returns made exactly one final formatting call, and that
\* call is its last provider call, after an accept and after a recovery alike
C9_OneFinalFormattingCall ==
    /\ Cardinality(Calls({"Final Solution"})) <= 1
    /\ Calls({"Final Solution"}) /= {} =>
          \A i \in Calls(TreePhases \cup {"Recovery", "Final Solution"}) :
              \A j \in Calls({"Final Solution"}) : i <= j
    /\ pc = "done" =>
          /\ Cardinality(Calls({"Final Solution"})) = 1
          /\ Len(messages) - 1 \in Calls({"Final Solution"})
          /\ Last(messages).role = "assistant"
          /\ Last(messages).kind = "Final Solution"

\* a solve that returned after the root's solution was accepted
C9_Witness ==
    /\ pc = "done"
    /\ error_message = "none"
    /\ Last(metadata_messages).type = "Final Solution"
    /\ \E k \in DOMAIN metadata_messages : metadata_messages[k].type = "Accepted Solution"

\* no exception has been raised in the solve so far
Undisturbed == exc = "none" /\ error_message = "none" /\ pc \notin {"raise", "failed"}

\* C10: the subtasks of a decomposition are solved in list order, subtask i
\* under the path p.i, the next one starting only when the one before
\* returned; after the last one the path is p again and one integration
\* instruction is appended and stamped at p before the parent is solved on
C10_SubtasksInOrder ==
    /\ [](Undisturbed =>
            /\ Len(task_counter) = Len(stack)
            /\ \A d \in DOMAIN stack :
                  /\ task_counter[d] = stack[d].i
                  /\ stack[d].i \in 1..Len(stack[d].subtasks))
    /\ [][(pc = "recursion" /\ stack /= <<>>) =>
            /\ Last(messages').task = Top.subtasks[Top.i]
            /\ Last(metadata_messages').task_number = task_counter
            /\ Last(metadata_messages').message = Len(messages')]_vars
    /\ [][(Len(stack') = Len(stack) /\ stack' /= stack) =>
            /\ pc = "return" /\ pc' = "recursion"
            /\ Last(stack').i = Top.i + 1
            /\ Pop(stack') = Pop(stack)]_vars
    /\ [][Len(stack') > Len(stack) =>
            /\ Last(stack').i = 1
            /\ Pop(stack') = stack
            /\ Pop(task_counter') = task_counter]_vars
    /\ [][(Len(stack') < Len(stack) /\ pc = "return") =>
            /\ Top.i = Len(Top.subtasks)
            /\ task_counter' = Pop(task_counter)
            /\ Len(messages') = Len(messages) + 1
            /\ Last(messages').role = "user"
            /\ Last(messages').kind = "Task Integration"
            /\ Len(metadata_messages') = Len(metadata_messages) + 1
            /\ Last(metadata_messages').type = "Task Integration"
            /\ Last(metadata_messages').task_number = task_counter'
            /\ Last(metadata_messages').message = Len(messages')
            /\ pc' = "solve_task"]_vars

\* two subtasks were solved one after the other and their parent, the root,
\* received its integration instruction
C10_Witness ==
    /\ Undisturbed
    /\ \E k, l \in DOMAIN metadata_messages :
          /\ k < l
          /\ metadata_messages[k].type = "Accepted Solution"
          /\ metadata_messages[k].task_number = <<2>>
          /\ metadata_messages[l].type = "Task Integration"
          /\ metadata_messages[l].task_number = <<>>


\* C11: a decomposition reply with no structured list and no numbered list
\* is answered with exactly the three default subtasks, which are looped
\* over like parsed ones; every decompose loop has at least one subtask
C11_DefaultSubtasks ==
    /\ \A reply \in SubtaskReplies :
          /\ Len(subtasks_of(reply)) >= 1
          /\ parsing_decompose_task_function(reply) = <<>> =>
                (subtasks_of(reply) = default_subtasks /\ Len(subtasks_of(reply)) = 3)
          /\ parsing_decompose_task_function(reply) /= <<>> =>
                subtasks_of(reply) = parsing_decompose_task_function(reply)
    /\ \A d \in DOMAIN stack :
          /\ Len(stack[d].subtasks) >= 1
          /\ parsing_decompose_task_function(stack[d].decompose_answer) = <<>> =>
                (stack[d].subtasks = default_subtasks /\ Len(stack[d].subtasks) = 3)
    /\ (pc = "recursion" /\ stack /= <<>>) => task_text = Top.subtasks[Top.i]

\* the first two default subtasks of an unparseable decomposition reply were
\* solved and accepted, and the third one is being stated
C11_Witness ==
    /\ Undisturbed
    /\ pc = "recursion"
    /\ stack /= <<>>
    /\ parsing_decompose_task_function(Top.decompose_answer) = <<>>
    /\ Top.i = 3
    /\ task_text = <<"implementation">>
    /\ \E k \in DOMAIN metadata_messages :
          /\ metadata_messages[k].type = "Accepted Solution"
          /\ metadata_messages[k].task_number = <<2>>


\* every phase a provider call is made in
AllPhases == TreePhases \cup {"Recovery", "Final Solution"}

\* C12: a decision that parses to accept makes the node return at once: the
\* reply is stamped as accepted, no message is appended and no call made, the
\* path stays; what follows is the next sibling, the parent's integration or,
\* at the root, the final formatting call and nothing else
C12_AcceptReturns ==
    /\ [][(inflight = "Strategy Selection"
            /\ parsing_action_function(Text(Last(messages').task)) = "~a") =>
              pc' = "Solution Accepted"]_vars
    /\ [][pc = "Solution Accepted" =>
            /\ pc' = "return"
            /\ inflight' = "none"
            /\ Len(messages') = Len(messages)
            /\ task_counter' = task_counter
            /\ stack' = stack
            /\ Last(metadata_messages').type = "Accepted Solution"
            /\ Last(metadata_messages').task_number = task_counter]_vars
    /\ [][pc = "return" =>
            /\ inflight' = "none"
            /\ stack = <<>> => (pc' = "Final Solution" /\ Len(messages') = Len(messages))
            /\ stack /= <<>> => (pc' \in {"recursion", "solve_task"}
                                 /\ task_counter' /= task_counter)]_vars
    /\ [](\A k \in DOMAIN metadata_messages :
            (metadata_messages[k].type = "Accepted Solution"
             /\ metadata_messages[k].task_number = <<>>) =>
                \A i \in Calls(AllPhases) :
                    i > metadata_messages[k].message => messages[i].kind = "Final Solution")

\* the root task was accepted on the first pass and the solve returned: five
\* calls in the tree, no decomposition, then the final formatting call
C12_Witness ==
    /\ pc = "done"
    /\ Cardinality(Calls(TreePhases)) = 5
    /\ Calls({"Task Decomposition"}) = {}
    /\ task_counter = <<>>
    /\ \E k \in DOMAIN metadata_messages :
          /\ metadata_messages[k].type = "Accepted Solution"
          /\ metadata_messages[k].task_number = <<>>
          /\ Cardinality({i \in Calls(AllPhases) : i > metadata_messages[k].message}) = 1


\* the failures the retry layer is to absorb: rate limit and timeout on the
\* direct backend; on the routing backend also provider and connection
\* errors and a blank or missing response content
Transient ==
    IF use_openai_or_openrouter = "openai"
    THEN {"RateLimitError", "APITimeoutError"}
    ELSE {"RateLimitError", "APITimeoutError", "APIConnectionError",
          "APIStatusError", "DeepSeekRouterError"}

\* C13: N transient failures followed by a success, N below the attempt
\* limit, make N+1 attempts and the call returns the successful response: a
\* transient failure before the limit leads to another attempt, a response
\* is returned as it is, and a returning call has failed once less than it
\* has attempted
C13_RetriesThenSuccess ==
    /\ [][(call_pc = "retry" /\ outcome \in Transient
            /\ attempt_number < stop_after_attempt) =>
              (call_pc' = "attempt" /\ raised' = "none" /\ returned' = "none")]_vars
    /\ [][(call_pc = "retry" /\ outcome \in Results) =>
              (call_pc' = "returned" /\ returned' = outcome /\ raised' = "none"
               /\ attempt_number' = failures' + 1)]_vars
    /\ [](call_pc = "returned" =>
              /\ attempt_number = failures + 1
              /\ attempt_number <= stop_after_attempt
              /\ returned = outcome)

\* nine transient failures, then the tenth attempt returns the content
C13_Witness ==
    /\ call_pc = "returned"
    /\ returned = "content"
    /\ failures = 9
    /\ attempt_number = 10
    /\ requests = 10


\* C14: a call whose every attempt failed transiently stops at the tenth
\* attempt, and what reaches the caller is the error of the last attempt
\* itself, of its own class, on either backend
C14_OriginalErrorAfterExhaustion ==
    /\ attempt_number <= stop_after_attempt
    /\ (call_pc = "raised" /\ outcome \in Transient
        /\ attempt_number = stop_after_attempt) =>
            (raised = outcome /\ returned = "none")


\* a name of the routing convention on the direct backend, or a name of the
\* direct convention on the routing backend
Mismatch(name) ==
    \/ use_openai_or_openrouter = "openai" /\ count(name, "/") > 0
    \/ use_openai_or_openrouter = "openrouter" /\ count(name, "/") = 0

\* C15: a model name of the other backend's convention is a configuration
\* error: given to the constructor, no agent comes to be and nothing is sent;
\* given to a call, by the constructor's name or by an override, the call
\* raises the error out of its first attempt, sends no request and opens no
\* client
C15_NameMismatchRaisesAtOnce ==
    /\ (call_pc /= "new" /\ Mismatch(self_model_name)) =>
          (call_pc = "no agent" /\ raised = "ValueError" /\ requests = 0
           /\ attempt_number = 0 /\ clients = 0)
    /\ (call_pc \in {"request", "client", "convert", "finally", "retry",
                     "returned", "raised"}
        /\ Mismatch(effective_model_name)) =>
          /\ attempt_number = 1
          /\ requests = 0
          /\ clients = 0
          /\ call_pc \in {"retry", "raised"}
          /\ outcome = "ValueError"
          /\ call_pc = "raised" => (raised = "ValueError" /\ returned = "none")

\* a call with a mismatching override has raised
C15_Witness ==
    /\ call_pc = "raised"
    /\ raised = "ValueError"
    /\ model_name /= <<>>
    /\ ~Mismatch(self_model_name)
    /\ Mismatch(model_name)
    /\ attempt_number = 1
    /\ requests = 0

\* C16: on the routing backend the client an attempt opens is closed before
\* the attempt ends, whatever the exit: one client at most is open at a
\* time, and none between attempts, after the call returned or after it
\* raised, the exhaustion of the attempts included
C16_ClientClosedOnEveryPath ==
    /\ clients \in {0, 1}
    /\ clients = 1 => (use_openai_or_openrouter = "openrouter"
                       /\ call_pc \in {"convert", "request", "finally"})
    /\ call_pc \in {"attempt", "retry", "returned", "raised", "idle"} => clients = 0

\* the routing backend has given up after ten attempts, no client is open
C16_Witness ==
    /\ use_openai_or_openrouter = "openrouter"
    /\ call_pc = "raised"
    /\ attempt_number = stop_after_attempt
    /\ raised = "DeepSeekRouterError"
    /\ requests = stop_after_attempt
    /\ clients = 0


\* the paths of depth two at most
Paths ==
    {<<>>} \cup {<<a>> : a \in 1..MaxDigit}
           \cup {<<a, b>> : a, b \in 1..MaxDigit} \cup {<<1, 1, 1>>, <<1, 2, 1>>}

StrictPrefix(p, q) ==
    /\ Len(p) < Len(q)
    /\ \A i \in 1..Len(p) : p[i] = q[i]

\* the five cases of a path p against the current path
Cases(p, current) ==
    <<p = current,
      StrictPrefix(p, current),
      StrictPrefix(current, p),
      /\ p /= current /\ ~StrictPrefix(p, current) /\ ~StrictPrefix(current, p)
      /\ p[1] = current[1],
      /\ p /= current /\ ~StrictPrefix(p, current) /\ ~StrictPrefix(current, p)
      /\ p[1] /= current[1]>>

Statuses ==
    <<"in_progress", "parent_for_current_task", "subtask_resolved", "resolved",
      "resolved_subtask_of_parent_not_important_for_current">>

\* C17: the status of a record is a function of its path and of the path of
\* the last record: exactly one of the five cases holds for any two paths,
\* and the status given is the one of that case
C17_FiveStatuses ==
    /\ \A p \in Paths, current \in Paths :
          /\ Cardinality({k \in 1..5 : Cases(p, current)[k]}) = 1
          /\ \A k \in 1..5 : Cases(p, current)[k] => new_status(p, current) = Statuses[k]
    /\ \A i \in DOMAIN metadata_messages :
          LET p == metadata_messages[i].task_number
              current == Last(metadata_messages).task_number
          IN  \A k \in 1..5 :
                 Cases(p, current)[k] =>
                    update_all_messages_statuses(metadata_messages)[i].status = Statuses[k]

\* the statuses were recomputed with the current path at <<2>>: the record of
\* path <<1>> is neither on the current path nor under its first component
C17_Witness ==
    /\ pc = "store"
    /\ Len(metadata_messages) >= 2
    /\ Last(metadata_messages).task_number = <<2>>
    /\ Last(metadata_messages).status = "in_progress"
    /\ \E i \in DOMAIN metadata_messages :
          /\ metadata_messages[i].task_number = <<1>>
          /\ metadata_messages[i].status =
                "resolved_subtask_of_parent_not_important_for_current"


Texts == {"short", "brief", "lengthy"}

\* C19: compaction is idempotent: after a safe_replace_prompt that replaced
\* records of a type, a further call for that type, with the same text or
\* with another one, returns False, replaces nothing and leaves every
\* message and every record as they were
C19_CompactionIdempotent ==
    \A message_type \in StoredTypes, first \in Texts, second \in Texts :
        LET S1 == safe_replace_prompt(Store, message_type, first)
        IN  safe_replace_prompt_returns(Store, message_type, first) =>
               /\ ~safe_replace_prompt_returns(S1, message_type, second)
               /\ safe_replace_prompt(S1, message_type, second) = S1

\* two stamped messages of one type, the first compacted already, the second
\* not: a call for the type replaces the second by a text of 300 characters
\* or more, and a further call finds both marked
C19_Witness ==
    /\ pc = "store"
    /\ Len(messages) = 2
    /\ \A i \in DOMAIN metadata_messages : metadata_messages[i].type = "Theory"
    /\ metadata_messages[1].shortened
    /\ ~Last(metadata_messages).shortened
    /\ safe_replace_prompt_returns(Store, "Theory", "lengthy")
    /\ safe_replace_prompt(Store, "Theory", "lengthy")[1][2].body = "lengthy"


\* C20: compacting a record leaves in its message the first line of the
\* text as it was, status, type and path, followed by the replacement text
\* and by nothing of the old body, whether the content is a string or a
\* list; no other message changes
C20_StatusLineThenReplacement ==
    \A i \in DOMAIN metadata_messages, shortened_prompt \in Texts :
        LET r == metadata_messages[i]
            old == messages[r.message]
            new == replace_prompt_in_message(messages, r, shortened_prompt)
        IN  /\ Len(old.ann) >= 1
            /\ new[r.message].ann = <<old.ann[1]>>
            /\ new[r.message].body = shortened_prompt
            /\ new[r.message].content = old.content
            /\ new[r.message].role = old.role
            /\ \A k \in DOMAIN messages : k /= r.message => new[k] = messages[k]

\* a string message and a list message, both compacted: each holds its
\* status line with the recomputed status and the shortened prompt
C20_Witness ==
    /\ pc = "store"
    /\ Len(messages) = 2
    /\ messages[1].content = "str"
    /\ messages[2].content = "list"
    /\ \A k \in DOMAIN messages :
          /\ Len(messages[k].ann) = 1
          /\ messages[k].ann[1].status /= ""
          /\ messages[k].body = "short"
    /\ \A i \in DOMAIN metadata_messages : metadata_messages[i].shortened


ActionLetters == {"~a", "~b", "~v", "~g"}

\* the result of the first rule that matches a reply text, in the order:
\* structured action field with a letter value, contextual pattern, bare
\* Cyrillic letter, Latin letter through the table, keyword, default
first_match(t) ==
    IF json_action(t) \in ActionLetters THEN json_action(t)
    ELSE IF \E k \in 1..5 : search(k, t) /= 0
         THEN Lower(t[search(Least({k \in 1..5 : search(k, t) /= 0}), t)])
    ELSE IF letter_action(t) /= "none" THEN letter_action(t)
    ELSE IF keyword_action(t) /= "none" THEN keyword_action(t)
    ELSE "~g"

\* C21: the parser returns the result of the highest-priority rule that
\* matches the reply
C21_FirstMatchingRuleWins ==
    code /= "none" => code = first_match(Text(answer))


\* C22: increase_order followed by reduce_order is the identity on every
\* path: the first appends a component 1, the second removes the last one
C22_DescendAscendIdentity ==
    /\ \A p \in Paths :
          /\ increase_order(p) = p \o <<1>>
          /\ ~counter_raises(increase_order(p), 3)
          /\ reduce_order(increase_order(p)) = p
    /\ increase_order(task_counter) = task_counter \o <<1>>
    /\ reduce_order(increase_order(task_counter)) = task_counter
    /\ commanded(commanded(task_counter, 2), 3) = task_counter

\* from the root a record was stamped with the descent, at <<1>>, and the
\* next one with the ascent, at the root again
C22_Witness ==
    /\ pc = "store"
    /\ Len(metadata_messages) = 2
    /\ task_counter = <<>>
    /\ metadata_messages[1].task_number = <<1>>
    /\ metadata_messages[2].task_number = <<>>


Applied(op, c) ==
    /\ c \in DOMAIN contexts
    /\ last_op'.op = op
    /\ last_op'.ctx = c
    /\ contexts[c].task_prompt /= ""

\* C24: in mode 1 with a non-empty standing instruction the log after a user
\* append is exactly the system message with the instruction and the new user
\* message, and an assistant append adds one message at the end and changes
\* nothing else
C24_ModeOneKeepsLastExchange ==
    [][\A c \in 1..2 :
        /\ Applied("user", c) /\ contexts[c].mode = 1 =>
             /\ Log(c)' = <<system_message(contexts[c].task_prompt),
                            converted("user", last_op'.text)>>
             /\ contexts'[c].task_prompt = contexts[c].task_prompt
             /\ contexts'[c].mode = 1
        /\ Applied("assistant", c) /\ contexts[c].mode = 1 =>
             /\ Log(c)' = Append(Log(c), converted("assistant", "reply"))
             /\ contexts'[c].task_prompt = contexts[c].task_prompt
             /\ contexts'[c].mode = 1]_vars

C24_Witness ==
    /\ contexts[1].mode = 1
    /\ contexts[1].task_prompt = "revised"
    /\ last_op.op = "assistant"
    /\ Len(Log(1)) = 3
    /\ Log(1)[1] = system_message("revised")
    /\ Log(1)[2] = converted("user", "remark")

Seed(c) ==
    IF Log(c) = <<>> /\ contexts[c].task_prompt /= ""
    THEN <<system_message(contexts[c].task_prompt)>> ELSE <<>>

\* C25: in mode 2 the log only grows at its end; an append puts the standing
\* instruction in as a system message only when it finds the log empty, and
\* update_task_prompt on a non-empty log appends exactly one system message
\* with the new instruction
C25_ModeTwoAppendOnly ==
    [][\A c \in 1..2 :
        c \in DOMAIN contexts /\ last_op'.ctx = c /\ contexts[c].mode = 2 =>
          /\ last_op'.op \in {"user", "assistant"} =>
                Log(c)' = Log(c) \o Seed(c) \o <<converted(last_op'.op, last_op'.text)>>
          /\ last_op'.op = "update_task_prompt" =>
                /\ contexts'[c].task_prompt = last_op'.text
                /\ Log(c)' = IF Log(c) = <<>> THEN <<>>
                              ELSE Append(Log(c), instruction_message(last_op'.text))
          /\ last_op'.op = "change_mod" => Log(c)' = Log(c)]_vars

C25_Witness ==
    /\ contexts[1].mode = 2
    /\ last_op.op = "update_task_prompt"
    /\ Log(1) = <<system_message("standing"), converted("user", "question"),
                  instruction_message("revised")>>

\* C26: in mode 3 with a non-empty standing instruction a user append puts
\* a system message with the instruction then in force immediately before the
\* user message, an assistant append adds no system message, and what the log
\* holds stays as it is
C26_ModeThreeRepeatsInstruction ==
    [][\A c \in 1..2 :
        /\ Applied("user", c) /\ contexts[c].mode = 3 =>
              Log(c)' = Log(c) \o <<system_message(contexts[c].task_prompt),
                                    converted("user", last_op'.text)>>
        /\ Applied("assistant", c) /\ contexts[c].mode = 3 =>
              Log(c)' = Append(Log(c), converted("assistant", "reply"))
        /\ Applied("update_task_prompt", c) /\ contexts[c].mode = 3 =>
              Log(c)' = Log(c)]_vars

C26_Witness ==
    /\ contexts[1].mode = 3
    /\ last_op.op = "user"
    /\ Log(1) = <<converted("assistant", "reply"), system_message("revised"),
                  converted("user", "remark")>>

\* the message objects a context refers to
Objects(c) == {contexts[c].messages[k] : k \in DOMAIN contexts[c].messages}

\* C27: clone gives a context of the same mode, standing instruction and
\* messages which holds none of the original's message objects, and an
\* append to or an edit in place in either context leaves the messages of
\* the other as they were
C27_CloneIsIndependent ==
    [][/\ last_op'.op = "clone" =>
            /\ Len(contexts') = 2
            /\ contexts'[2].mode = contexts[1].mode
            /\ contexts'[2].task_prompt = contexts[1].task_prompt
            /\ Log(2)' = Log(1)
            /\ contexts'[1] = contexts[1]
            /\ Log(1)' = Log(1)
            /\ (Objects(1) \cap Objects(2))' = {}
       /\ Len(contexts) = 2 /\ last_op'.op \in {"user", "assistant", "edit"} =>
            /\ \A c \in 1..2 : c /= last_op'.ctx => Log(c)' = Log(c)
            /\ (Objects(1) \cap Objects(2))' = {}]_vars

C27_Witness ==
    /\ Len(contexts) = 2
    /\ last_op.op = "edit"
    /\ Len(Log(1)) = 2
    /\ Len(Log(2)) = 2
    /\ \E c \in 1..2 : Log(c)[1].edited /\ ~Log(3 - c)[1].edited /\ last_op.ctx = c

\* s is t with some messages left out, the others in their order
Subsequence(s, t) ==
    \E f \in [DOMAIN s -> DOMAIN t] :
        /\ \A k \in DOMAIN s : s[k] = t[f[k]]
        /\ \A j, k \in DOMAIN s : j < k => f[j] < f[k]

\* C28: the list the trimmer works on is at every point its input with some
\* messages left out, so neither the number of messages nor the token total
\* grows, and the list of the context keeps every message
C28_TrimmedIsSubsequence ==
    /\ Subsequence(tmessages, original_messages)
    /\ Len(tmessages) <= Len(original_messages)
    /\ total_tokens(tmessages) <= total_tokens(original_messages)
    /\ context_messages = original_messages

C28_Witness ==
    /\ tpc = "return"
    /\ Len(original_messages) = 3
    /\ tmessages = <<original_messages[1], original_messages[3]>>
    /\ original_messages[2] /= original_messages[3]
    /\ original_messages[1] /= original_messages[2]

\* C29: the request a call sends carries the per-call model name when one is
\* given and the configured model name otherwise, on both backends, for text
\* and for structured requests
C29_OverrideModelSent ==
    request_model /= <<>> => request_model = effective_model_name

\* the records whose text a compaction of S into T replaced by the given text
ReplacedRecords(S, T, message_type, shortened_prompt) ==
    {i \in DOMAIN S[2] :
        /\ S[2][i].type = message_type
        /\ ~S[2][i].shortened
        /\ T[2][i].shortened
        /\ T[1][S[2][i].message].body = shortened_prompt}

\* C30: safe_replace_prompt returns True exactly when the call replaced the
\* text of at least one record; with an empty type, an empty text or a type
\* no record carries it returns False, and whenever it returns False it
\* changed nothing. It has a result for every type and text
C30_TrueIffReplaced ==
    pc = "store" =>
        \A message_type \in StoredTypes \cup {"", "Verification"}, shortened_prompt \in Texts \cup {""} :
            LET T == safe_replace_prompt(Store, message_type, shortened_prompt)
                returns == safe_replace_prompt_returns(Store, message_type, shortened_prompt)
            IN  /\ returns \in BOOLEAN
                /\ returns <=> ReplacedRecords(Store, T, message_type, shortened_prompt) /= {}
                /\ ~returns => T = Store
                /\ (\/ message_type = ""
                    \/ shortened_prompt = ""
                    \/ \A i \in DOMAIN metadata_messages :
                          metadata_messages[i].type /= message_type) => ~returns

C30_Witness ==
    /\ pc = "store"
    /\ safe_replace_prompt_returns(Store, "Solution", "brief")
    /\ ~safe_replace_prompt_returns(Store, "Theory", "brief")
    /\ \E i \in DOMAIN metadata_messages :
          /\ metadata_messages[i].type = "Theory"
          /\ metadata_messages[i].shortened
          /\ messages[metadata_messages[i].message].body = "short"

\* C31: load_prompts returns for every requested type an entry in both
\* dictionaries: the full text is the file's text, or empty when the file is
\* missing, the shortened text is the shortened file's text, or the full text
\* when that file is missing, and the load returns whatever is missing
C31_LoadedPrompts ==
    load_pc = "returned" =>
        \A k \in DOMAIN prompt_types :
            LET t == prompt_types[k] IN
            /\ t \in DOMAIN full_prompts
            /\ t \in DOMAIN shortened_prompts
            /\ full_prompts[t] = IF full_files[t].exists THEN full_files[t].text ELSE ""
            /\ shortened_prompts[t] = IF shortened_files[t].exists
                                      THEN shortened_files[t].text ELSE full_prompts[t]

C31_Witness ==
    /\ load_pc = "returned"
    /\ Len(prompt_types) = 2
    /\ prompt_types[1] /= prompt_types[2]
    /\ ~shortened_files[prompt_types[1]].exists
    /\ shortened_prompts[prompt_types[1]] = "full"
    /\ ~full_files[prompt_types[2]].exists
    /\ full_prompts[prompt_types[2]] = ""

\* the messages of context 1 of W, W being <<the contexts, the message objects>>
LogOf(W) == [k \in DOMAIN W[1][1].messages |-> W[2][W[1][1].messages[k]]]

\* the agent's context as it was at the call, with the user message appended
\* in its mode when the message is preserved
Preserved ==
    LET called == <<<<[mode |-> before.mode, task_prompt |-> before.task_prompt,
                       messages |-> [k \in DOMAIN before.log |-> k]]>>,
                    [id \in 1..MaxObjects |->
                        IF id \in DOMAIN before.log THEN before.log[id] ELSE Free]>>
    IN  IF preserve_user_messages_post_analysis
        THEN with_message(called, 1, "user", "question") ELSE called

\* C32: when response_from_LLM_with_decomposition has returned, with an
\* answer or after a provider call that gave no response, the agent's context
\* is the history of before the call, the user message when it is preserved,
\* and at most the final answer, each appended in the mode of the context,
\* and the mode is the one it had
C32_NoScratchLeft ==
    deep_pc = "returned" /\ before.method = "response_from_LLM_with_decomposition" =>
        /\ contexts[self_context].mode = before.mode
        /\ \/ Log(self_context) = LogOf(Preserved)
           \/ Log(self_context) = LogOf(with_message(Preserved, 1, "assistant", "reply"))

\* s is how t starts
Starts(s, t) == Len(s) <= Len(t) /\ SubSeq(t, 1, Len(s)) = s

\* C33: when the hierarchical solve has returned, the agent's context holds,
\* with the flag set, the history of before the call followed by the user's
\* message as a user message of its own, and with the flag not set it does
\* not hold that message
C33_UserMessagePreserved ==
    deep_pc = "returned" /\ before.method = "hierarchical" =>
        IF preserve_user_messages_post_analysis
        THEN Starts(LogOf(Preserved), Log(self_context))
        ELSE \A k \in DOMAIN Log(self_context) :
                Log(self_context)[k] /= converted("user", "question")

\* C34: a system message at index 0 stays the first message of the list
\* through every pass of the trimmer; when the first message is not a system
\* message nothing is protected, and the pass that evicts the oldest message
\* evicts the one at index 0
C34_ProtectedPrefix ==
    /\ [](tpc /= "idle" /\ original_messages[1].role = "system" =>
             /\ tmessages /= <<>>
             /\ tmessages[1] = original_messages[1]
             /\ start_index = 1)
    /\ [][tpc = "oldest" /\ original_messages[1].role /= "system"
             /\ while_condition(tmessages) =>
                 /\ start_index = 0
                 /\ tmessages' = Tail(tmessages)]_vars

C34_Witness ==
    /\ tpc = "return"
    /\ original_messages[1].role = "system"
    /\ Len(original_messages) = 3
    /\ tmessages = <<original_messages[1]>>
    /\ total_tokens(tmessages) > max_total_tokens

\* C35: when the trimmer returns a list whose token total is still above the
\* ceiling, at most one message is left after the protected prefix and it is
\* not a system message; the trimmer returns the list all the same
C35_OverCeilingRemainder ==
    tpc = "return" /\ total_tokens(tmessages) > max_total_tokens =>
        /\ Len(tmessages) <= start_index + 1
        /\ \A k \in DOMAIN tmessages : k > start_index => tmessages[k].role /= "system"

C35_Witness ==
    /\ tpc = "return"
    /\ total_tokens(tmessages) > max_total_tokens
    /\ start_index = 1
    /\ Len(original_messages) = 3
    /\ Len(tmessages) = 2
    /\ tmessages[2].role = "assistant"

\* C36: a record keeps the path it was stamped with: no command on the
\* counter of the store, none of the operations of the store, changes the
\* path of a record that is there
C36_RecordKeepsItsPath ==
    [][pc = "store" =>
         \A i \in DOMAIN metadata_messages :
             /\ i \in DOMAIN metadata_messages'
             /\ metadata_messages'[i].task_number = metadata_messages[i].task_number]_vars

C36_Witness ==
    /\ pc = "store"
    /\ Len(metadata_messages) = 2
    /\ metadata_messages[1].task_number = <<1>>
    /\ metadata_messages[2].task_number = <<2>>
    /\ task_counter = <<2>>

\* the rounds that lead back to the head of solve_task: a repair or a
\* continue instruction, and the integration after a decompose loop
Rounds == {"Solution Retry", "Solution Continuation"}

\* C37: whatever the model answers, a solve with a finite limit makes
\* finitely many provider calls and then returns a result: it comes to its
\* end, and it ends by returning
C37_SolveReturns == <>(pc = "done")

\* the solve comes to an end, by a return or by an exception
SolveEnds == <>Ended

\* a repair or continue round raises the depth the next solve_task is
\* entered with above the shared counter, and the shared counter never
\* falls inside the tree
RoundsAdvance ==
    [][/\ pc \in Rounds => current_depth' > current_llm_calling_count
       /\ pc = "solve_task" => current_llm_calling_count' >= current_llm_calling_count
       /\ (pc = "solve_task" /\ current_depth > current_llm_calling_count) =>
              current_llm_calling_count' > current_llm_calling_count]_vars

\* C38: the path of the store is the root path when the final formatting
\* call is made, while it is under way and when the top-level call has
\* returned, after a tree that returned and after a recovery alike
C38_FinalAtRoot ==
    (pc = "Final Solution" \/ inflight = "Final Solution" \/ pc = "done") =>
        task_counter = <<>>

\* the same on the runs in which no exception was raised
FinalAtRootUndisturbed ==
    (error_message = "none" /\ (pc = "Final Solution" \/ inflight = "Final Solution" \/ pc = "done")) =>
        task_counter = <<>>

\* C39: the store of a cloned agent has the records of the original, one
\* for one and in order, each with the path, the status and the type of
\* the original's record, and the path of the original; the clone leaves the
\* messages, the records and the path of the original as they were
C39_CloneCorresponds ==
    /\ [](pc = "cloned" =>
            /\ Len(cloned_agent.metadata_messages) = Len(metadata_messages)
            /\ \A i \in DOMAIN metadata_messages :
                  i \in DOMAIN cloned_agent.metadata_messages =>
                     /\ cloned_agent.metadata_messages[i].task_number = metadata_messages[i].task_number
                     /\ cloned_agent.metadata_messages[i].status = metadata_messages[i].status
                     /\ cloned_agent.metadata_messages[i].type = metadata_messages[i].type
            /\ cloned_agent.task_counter = task_counter)
    /\ [][pc' = "cloned" =>
            /\ messages' = messages
            /\ metadata_messages' = metadata_messages
            /\ task_counter' = task_counter]_vars

\* what the clone does keep: the path of the store, the messages in their
\* order, and one record at most for each message
CloneKeeps ==
    pc = "cloned" =>
        /\ cloned_agent.task_counter = task_counter
        /\ Len(cloned_agent.messages) = Len(messages)
        /\ \A i \in DOMAIN cloned_agent.metadata_messages :
              cloned_agent.metadata_messages[i].task_number = task_counter

\* C40: whatever was stamped, rewritten and compacted, the text of a message
\* with a record is indented by as many spaces as the path of the record
\* is deep
C40_IndentIsDepth ==
    pc = "store" =>
        \A i \in DOMAIN metadata_messages :
            messages[metadata_messages[i].message].ind =
                get_order(metadata_messages[i].task_number)

\* the same right after a stamp: the text is dedented before it is indented
IndentAfterStamp ==
    [][(pc = "store" /\ Len(metadata_messages') > Len(metadata_messages)) =>
          messages'[Len(messages')].ind = get_order(task_counter')]_vars
====
